---------------------------- MODULE Spec2Model ----------------------------
(***************************************************************************)
(* Model of the ClickUp dashboard builder (src/build_dashboard_data.py):   *)
(* the date resolver (ms_to_date, best_date), the category classifier      *)
(* (categorize), the budget aggregator (build_project_budgets) and the     *)
(* entry-building pipeline (main).                                         *)
(*                                                                         *)
(* Python values are tagged tuples: <<"None">>, <<"Absent">> (a key that   *)
(* is missing from a dict), <<"int", n>>, <<"str", s>>, <<"list", seq>>.   *)
(* A str is a sequence of one-character strings, so that lower(), strip(), *)
(* startswith() and the substring test are computed, not assumed.          *)
(* Decimal numbers are fixed-point integers in thousandths; a value that   *)
(* went through round(x, 2) is a multiple of 10.                           *)
(***************************************************************************)
EXTENDS Integers, Sequences, FiniteSets, TLC

VARIABLES
    tasks,                \* the task snapshot (all_tasks_raw.json), a sequence
    folder_names,         \* the folder-name lookup (folder_mapping_full.json)
    pc,                   \* position of the running function
    i,                    \* index of the next element of the running loop
    ret,                  \* value returned by the function under study
    list_budgets,         \* build_project_budgets: per-list records, insertion-ordered
    folder_budgets,       \* build_project_budgets: per-folder records, insertion-ordered
    entries,              \* main: the entry list
    skipped_no_estimate,  \* main: counters of the three exclusion gates
    skipped_no_date,
    skipped_no_assignee,
    responses,            \* what the network answers, fixed for a run
    todo,                 \* fetch_all_tasks: the requests still to make, in order
    seen_ids,             \* fetch_all_tasks: the ids of the tasks fetched so far
    all_tasks,            \* fetch_all_tasks: the tasks fetched so far
    all_meetings,         \* fetch_google_calendar: the meetings kept so far
    stats,                \* fetch_google_calendar: one record per consultant fetched
    written               \* the files written so far, in order: [file, content] records

fetch_vars == <<responses, todo, seen_ids, all_tasks, all_meetings, stats>>
vars == <<tasks, folder_names, pc, i, ret, list_budgets, folder_budgets, entries,
          skipped_no_estimate, skipped_no_date, skipped_no_assignee, fetch_vars, written>>

-----------------------------------------------------------------------------
(* Python values *)

None == <<"None">>
Absent == <<"Absent">>
PyInt(n) == <<"int", n>>
PyStr(s) == <<"str", s>>
PyList(s) == <<"list", s>>
Raised(e) == <<"raise", e>>
Returned(v) == <<"return", v>>

IsNone(v) == v[1] = "None"
IsStr(v) == v[1] = "str"
IsInt(v) == v[1] = "int"
IsList(v) == v[1] = "list"
IsRaised(v) == v[1] = "raise"
IsReturned(v) == v[1] = "return"

\* dict.get(key) and dict.get(key, default): a missing key yields the default
Get(d, key) == IF d[key] = Absent THEN None ELSE d[key]
GetOr(d, key, default) == IF d[key] = Absent THEN default ELSE d[key]

\* Python truthiness of the value kinds the snapshot holds
Truthy(v) ==
    CASE v[1] = "None" -> FALSE
      [] v[1] = "int" -> v[2] # 0
      [] v[1] = "str" -> Len(v[2]) > 0
      [] v[1] = "list" -> Len(v[2]) > 0
      [] OTHER -> TRUE

\* `v or w`
PyOr(v, w) == IF Truthy(v) THEN v ELSE w

-----------------------------------------------------------------------------
(* str operations *)

UpperChars == <<"A","B","C","D","E","F","G","H","I","J","K","L","M","N","O","P","Q","R",
                "S","T","U","V","W","X","Y","Z","É","È","Ê","À","Ç">>
LowerChars == <<"a","b","c","d","e","f","g","h","i","j","k","l","m","n","o","p","q","r",
                "s","t","u","v","w","x","y","z","é","è","ê","à","ç">>

LowerChar(c) ==
    IF \E k \in 1..Len(UpperChars) : UpperChars[k] = c
    THEN LowerChars[CHOOSE k \in 1..Len(UpperChars) : UpperChars[k] = c]
    ELSE c

\* s.lower() on the characters of a str
LowerSeq(s) == [k \in 1..Len(s) |-> LowerChar(s[k])]

\* v.lower(): AttributeError on a value that is not a str
Lower(v) == IF IsStr(v) THEN PyStr(LowerSeq(v[2])) ELSE Raised("AttributeError")

IsSpace(c) == c \in {" ", "\t", "\n"}

\* s.strip()
StripSeq(s) ==
    IF \A k \in 1..Len(s) : IsSpace(s[k]) THEN <<>>
    ELSE LET a == CHOOSE k \in 1..Len(s) : ~IsSpace(s[k]) /\ \A j \in 1..(k-1) : IsSpace(s[j])
             b == CHOOSE k \in 1..Len(s) : ~IsSpace(s[k]) /\ \A j \in (k+1)..Len(s) : IsSpace(s[j])
         IN SubSeq(s, a, b)

\* k in s (substring test)
Contains(s, k) ==
    \E a \in 1..(Len(s) - Len(k) + 1) : SubSeq(s, a, a + Len(k) - 1) = k

\* s.startswith(k)
StartsWith(s, k) == Len(s) >= Len(k) /\ SubSeq(s, 1, Len(k)) = k

\* any(k in s for k in keywords)
AnyIn(keywords, s) == \E n \in 1..Len(keywords) : Contains(s, keywords[n])

-----------------------------------------------------------------------------
(* categorize: the keyword lists of the fifteen rules, in source order *)

Kw == [
    Conges |-> <<
        <<"c","o","n","g","é">>, <<"c","o","n","g","e">>, <<"f","é","r","i","é">>, <<"f","e","r","i","e">>, <<"a","b","s","e","n","c","e">>,
        <<"j","o","u","r"," ","f","é","r","i","é">>, <<"a","m","i","c","a","l","e">>, <<"m","a","l","a","d","i","e">>, <<"a","r","r","ê","t"," ","d","e"," ","t","r","a","v","a","i","l">>, <<"a","r","r","ê","t">> >>,
    CongesExact |-> << <<"c","p">>, <<"f","é","r","i","é">> >>,
    Commercial |-> <<
        <<"a","v","a","n","t"," ","v","e","n","t","e">>, <<"a","v","a","n","t","-","v","e","n","t","e">>, <<"f","i","d">>, <<"f","i","d","é">>,
        <<"p","r","o","s","p","e","c","t">>, <<"c","o","m","m","e","r","c","i","a","l">>, <<"p","r","i","s","e"," ","d","e"," ","b","e","s","o","i","n">> >>,
    Accompagnement |-> <<
        <<"a","c","c","o","m","p","a","g","n","e","m","e","n","t">>, <<"r","é","g","i","e">>, <<"t","e","m","p","s"," ","a","c","c","o","m","p","a","g","n","e","m","e","n","t">>,
        <<"s","é","m","i","n","a","i","r","e">>, <<"s","e","m","i","n","a","i","r","e">>, <<"c","o","a","c","h","i","n","g">>, <<"a","t","e","l","i","e","r">>,
        <<"p","r","é","p","a"," ","s","é","m","i","n","a","i","r","e">>, <<"p","r","é","p","a","r","a","t","i","o","n"," ","s","é","m","i","n","a","i","r","e">> >>,
    Formation |-> <<
        <<"f","o","r","m","a","t","i","o","n">>, <<"w","i","k","i"," ">>, <<"w","i","k","i","-">>, <<"t","u","t","o">>,
        <<"w","e","b","i","n","a","i","r">>, <<"w","e","b","i","n","a","r">>, <<"v","e","i","l","l","e"," ","s","e","o">>, <<"v","e","i","l","l","e"," ","r","a","t","t","r","a","p","a","g","e">> >>,
    EtudeLexicale |-> <<
        <<"l","e","x","i","c","a","l","e">>, <<"l","e","x","/","b","e","n","c","h">>, <<"é","t","u","d","e"," ","l","e","x">>, <<"e","t","u","d","e"," ","l","e","x">>,
        <<"b","e","n","c","h","m","a","r","k">>, <<"b","e","n","c","h"," ","c","o","n","c","u">>, <<"m","o","t","s"," ","c","l","é","s">>, <<"m","o","t","s","-","c","l","é","s">> >>,
    Audit |-> << <<"a","u","d","i","t">> >>,
    Redaction |-> <<
        <<"r","é","d","a","c","t","i","o","n">>, <<"r","e","d","a","c","t","i","o","n">>, <<"c","o","n","t","e","n","u">>, <<"a","r","t","i","c","l","e">>, <<"t","e","x","t","e">>, <<"s","p","i","n">> >>,
    Netlinking |-> <<
        <<"n","e","t","l","i","n","k","i","n","g">>, <<"b","a","c","k","l","i","n","k">>, <<"a","f","f","i","l","i","a","t","i","o","n">>, <<"v","e","n","t","e"," ","d","e"," ","l","i","e","n">> >>,
    Maillage |-> << <<"m","a","i","l","l","a","g","e">> >>,
    Brief |-> <<
        <<"b","r","i","e","f">>, <<"r","o","a","d","m","a","p">>, <<"s","t","r","a","t","e","g">>, <<"l","a","n","c","e","m","e","n","t">>,
        <<"k","i","c","k"," ","o","f","f">>, <<"k","i","c","k","o","f","f">>, <<"k","i","c","k","-","o","f","f">>, <<"d","i","s","c","o","v","e","r">> >>,
    Technique |-> <<
        <<"t","e","c","h","n","i","q","u","e">>, <<"c","r","a","w","l">>, <<"m","i","g","r","a","t","i","o","n">>, <<"i","n","d","e","x","a","t","i","o","n">>, <<"s","e","a","r","c","h"," ","c","o","n","s","o","l","e">>,
        <<"s","i","t","e","m","a","p">>, <<"c","o","r","e"," ","w","e","b">>, <<"p","a","g","e","s","p","e","e","d">>, <<"v","i","t","e","s","s","e">>, <<"r","e","c","e","t","t","e">>, <<"p","r","e","p","r","o","d">>,
        <<"p","r","é","p","r","o","d">>, <<"m","e","p">>, <<"m","i","s","e"," ","e","n"," ","p","r","o","d">>, <<"r","e","d","i","r","e","c","t","i","o","n">>, <<"i","m","p","l","é","m","e","n","t","a","t","i","o","n">>,
        <<"i","m","p","l","e","m","e","n","t","a","t","i","o","n">>, <<"u","a","t">>, <<"p","r","e","l","a","u","n","c","h">>, <<"p","r","e","-","l","a","u","n","c","h">>, <<"c","t"," ","s","e","o">>,
        <<"e","x","c","e","l"," ","d","e"," ","r","e","c","o">>, <<"a","m","o","a">>, <<"m","a","q","u","e","t","t","e">>, <<"r","e","f","o","n","t","e">>, <<"g","s","c">>, <<"i","n","s","t","a","l","l">> >>,
    Reporting |-> <<
        <<"r","e","p","o","r","t","i","n","g">>, <<"a","n","a","l","y","t","i","c","s">>, <<"m","a","t","o","m","o">>, <<"d","a","s","h","b","o","a","r","d">>, <<"r","a","p","p","o","r","t">>,
        <<"s","c","o","r","i","n","g">>, <<"p","u","l","s","e"," ","s","c","o","r","i","n","g">>, <<"c","h","i","f","f","r","e","s">>, <<"k","p","i">> >>,
    Reunion |-> <<
        <<"r","é","u","n","i","o","n">>, <<"r","e","u","n","i","o","n">>, <<"c","a","l","l">>, <<"e","m","a","i","l">>, <<"m","a","i","l">>, <<"é","c","h","a","n","g","e">>,
        <<"e","c","h","a","n","g","e">>, <<"p","o","i","n","t"," ","p","r","o","j","e","t">>, <<"p","o","i","n","t"," ","é","q","u","i","p","e">>, <<"p","o","i","n","t"," ","c","l","i","e","n","t">>,
        <<"p","o","i","n","t"," ","h","e","b","d","o">>, <<"p","o","i","n","t"," ","m","e","n","s","u","e","l">>, <<"p","o","i","n","t"," ","d","u"," ","l","u","n","d","i">>, <<"p","o","i","n","t","s"," ","p","r","o","j","e","t","s">>,
        <<"p","o","i","n","t"," ","o","r","g","a">>, <<"p","o","i","n","t"," ","n","e","t","l","i","n","k","i","n","g">>, <<"p","o","i","n","t"," ","t","o","o","l">>,
        <<"r","e","s","t","i","t","u","t","i","o","n">>, <<"r","e","l","a","n","c","e">>, <<"m","e","s","s","a","g","e">>, <<"r","e","t","o","u","r">>, <<"d","i","s","c","u","s","s","i","o","n">>,
        <<"d","e","b","r","i","e","f">>, <<"v","i","s","i","o">>, <<"p","r","e","z">>, <<"p","r","é","p","a"," ","r","é","u","n","i","o","n">>,
        <<"b","o","n","s","o","i","r">>, <<"c","o","p","i","l">>, <<"e","n","t","r","e","t","i","e","n">> >>,
    Gestion |-> <<
        <<"p","l","a","n","n","i","n","g">>, <<"g","e","s","t","i","o","n">>, <<"p","i","l","o","t","a","g","e">>, <<"o","r","g","a">>, <<"c","l","i","c","k","u","p">>,
        <<"r","é","t","r","o","p","l","a","n","n","i","n","g">>, <<"f","a","c","t","u","r","e">>, <<"d","e","v","i","s">>, <<"a","d","m","i","n">>, <<"r","é","-","o","r","g","a">>,
        <<"l","i","n","k","e","d","i","n">>, <<"p","i","n","t","e","r","e","s","t">>, <<"y","o","u","t","u","b","e">>, <<"v","i","s","u","e","l","s">>, <<"s","t","y","l","e">>,
        <<"p","a","n","n","i","n","g">>, <<"p","l","l","a","n","i","n","g">>, <<"f","o","r","e","c","a","s","t">>, <<"f","i","c","h","e"," ","d","e"," ","p","o","s","t","e">>,
        <<"a","c","c","u","e","i","l">>, <<"d","é","m","é","n","a","g","e","m","e","n","t">>, <<"a","f","t","e","r","w","o","r","k">>, <<"r","e","p","a","s">> >>,
    Operationnel |-> <<
        <<"c","o","m","m","a","n","d","e"," ","c","u","v","e">>, <<"c","u","v","e"," ","e","x","p","e","r","t">>, <<"c","u","v","e","-","e","x","p","e","r","t">>,
        <<"s","i","t","e","s"," ","d","'","é","d","i","t","i","o","n">>, <<"y","o","u","d","r","o","n","e">> >> ]

NoMatch == "(no match)"

\* 1. Conges / Absences
Rule1(name, combined) ==
    IF AnyIn(Kw.Conges, combined) THEN "Conges / Absences"
    ELSE IF \E n \in 1..Len(Kw.CongesExact) : StripSeq(name) = Kw.CongesExact[n]
         THEN "Conges / Absences"
    ELSE NoMatch

\* 2. Commercial / Avant-vente
Rule2(folder_name, combined) ==
    IF AnyIn(Kw.Commercial, combined) THEN "Commercial / Avant-vente"
    ELSE IF StripSeq(folder_name) = <<"a","v","a","n","t"," ","v","e","n","t","e">> THEN "Commercial / Avant-vente"
    ELSE NoMatch

\* 3. Accompagnement SEO
Rule3(list_name, combined) ==
    IF AnyIn(Kw.Accompagnement, combined) THEN "Accompagnement SEO"
    ELSE IF Contains(list_name, <<"p","l","a","n","i","f","i","c","a","t","i","o","n"," ","l","u","c","a","s">>) THEN "Accompagnement SEO"
    ELSE NoMatch

\* 4. Formation interne: the keywords are searched in the task name only; the
\* variant searches the concatenation of name, list name and folder name.
Rule4_combined(name, combined) ==
    IF AnyIn(Kw.Formation, combined) THEN "Formation"
    ELSE IF StartsWith(StripSeq(combined), <<"w","i","k","i">>) THEN "Formation"
    ELSE NoMatch
Rule4(name, combined) ==
    IF AnyIn(Kw.Formation, name) THEN "Formation"
    ELSE IF StartsWith(StripSeq(name), <<"w","i","k","i">>) THEN "Formation"
    ELSE NoMatch

\* 5. Etude lexicale / Benchmark
Rule5(combined) == IF AnyIn(Kw.EtudeLexicale, combined) THEN "Etude lexicale" ELSE NoMatch

\* 6. Audit, after "restitution" in the name, which is a meeting; the variant tests
\* "audit" first.
Rule6_audit_first(name, combined) ==
    IF AnyIn(Kw.Audit, combined) THEN "Audit"
    ELSE IF Contains(name, <<"r","e","s","t","i","t","u","t","i","o","n">>) THEN "Reunion / Call / Email"
    ELSE NoMatch
Rule6(name, combined) ==
    IF Contains(name, <<"r","e","s","t","i","t","u","t","i","o","n">>) THEN "Reunion / Call / Email"
    ELSE IF AnyIn(Kw.Audit, combined) THEN "Audit"
    ELSE NoMatch

\* 7..15
Rule7(combined) == IF AnyIn(Kw.Redaction, combined) THEN "Redaction / Contenu" ELSE NoMatch
Rule8(combined) == IF AnyIn(Kw.Netlinking, combined) THEN "Netlinking" ELSE NoMatch
Rule9(combined) == IF AnyIn(Kw.Maillage, combined) THEN "Maillage interne" ELSE NoMatch
Rule10(combined) == IF AnyIn(Kw.Brief, combined) THEN "Brief / Roadmap / Strategie" ELSE NoMatch
Rule11(combined) == IF AnyIn(Kw.Technique, combined) THEN "Technique" ELSE NoMatch
Rule12(combined) == IF AnyIn(Kw.Reporting, combined) THEN "Reporting / Analytics" ELSE NoMatch
Rule13(combined) == IF AnyIn(Kw.Reunion, combined) THEN "Reunion / Call / Email" ELSE NoMatch
Rule14(combined) == IF AnyIn(Kw.Gestion, combined) THEN "Gestion / Planning" ELSE NoMatch
Rule15(combined) == IF AnyIn(Kw.Operationnel, combined) THEN "Operationnel client" ELSE NoMatch

\* The rule cascade of categorize on the lowered name, list name, folder name and
\* their concatenation: the first rule that matches returns.
categorize_rules(name, list_name, folder_name, combined) ==
    IF Rule1(name, combined) # NoMatch THEN Rule1(name, combined)
    ELSE IF Rule2(folder_name, combined) # NoMatch THEN Rule2(folder_name, combined)
    ELSE IF Rule3(list_name, combined) # NoMatch THEN Rule3(list_name, combined)
    ELSE IF Rule4(name, combined) # NoMatch THEN Rule4(name, combined)
    ELSE IF Rule5(combined) # NoMatch THEN Rule5(combined)
    ELSE IF Rule6(name, combined) # NoMatch THEN Rule6(name, combined)
    ELSE IF Rule7(combined) # NoMatch THEN Rule7(combined)
    ELSE IF Rule8(combined) # NoMatch THEN Rule8(combined)
    ELSE IF Rule9(combined) # NoMatch THEN Rule9(combined)
    ELSE IF Rule10(combined) # NoMatch THEN Rule10(combined)
    ELSE IF Rule11(combined) # NoMatch THEN Rule11(combined)
    ELSE IF Rule12(combined) # NoMatch THEN Rule12(combined)
    ELSE IF Rule13(combined) # NoMatch THEN Rule13(combined)
    ELSE IF Rule14(combined) # NoMatch THEN Rule14(combined)
    ELSE IF Rule15(combined) # NoMatch THEN Rule15(combined)
    ELSE "Autre"

\* `task.get(key) or ""`; the variant without the fallback keeps a None
TextField_nofallback(task, key) == Get(task, key)
TextField(task, key) == PyOr(Get(task, key), PyStr(<<>>))

\* categorize(task): the lowered fields, then the rule cascade.  The result is
\* <<"return", label>>, or <<"raise", exception>> when .lower() meets a non-str.
categorize(task) ==
    LET name == Lower(TextField(task, "name"))
        list_name == Lower(TextField(task, "list_name"))
        folder_name == Lower(TextField(task, "folder_name"))
    IN  IF IsRaised(name) THEN name
        ELSE IF IsRaised(list_name) THEN list_name
        ELSE IF IsRaised(folder_name) THEN folder_name
        ELSE Returned(categorize_rules(name[2], list_name[2], folder_name[2],
                 name[2] \o <<" ">> \o list_name[2] \o <<" ">> \o folder_name[2]))

-----------------------------------------------------------------------------
(* ms_to_date and best_date *)

Digits == <<"0","1","2","3","4","5","6","7","8","9">>
IsDigit(c) == \E k \in 1..10 : Digits[k] = c
DigitVal(c) == (CHOOSE k \in 1..10 : Digits[k] = c) - 1

\* int(s) accepts a str of decimal digits (the model's timestamps carry no sign,
\* blank or underscore); anything else is a ValueError.
IsNumeric(s) == Len(s) > 0 /\ \A k \in 1..Len(s) : IsDigit(s[k])

RECURSIVE StripZeros(_)
StripZeros(s) == IF Len(s) > 1 /\ s[1] = "0" THEN StripZeros(Tail(s)) ELSE s

\* a <= b for digit strings of any length (Python integers are unbounded)
RECURSIVE LexLeq(_, _)
LexLeq(a, b) ==
    IF Len(a) = 0 THEN TRUE
    ELSE IF DigitVal(a[1]) # DigitVal(b[1]) THEN DigitVal(a[1]) < DigitVal(b[1])
    ELSE LexLeq(Tail(a), Tail(b))
NumLeq(a, b) ==
    LET x == StripZeros(a)
        y == StripZeros(b)
    IN  IF Len(x) # Len(y) THEN Len(x) < Len(y) ELSE LexLeq(x, y)

\* The last millisecond datetime can hold (9999-12-31T23:59:59.999) and the last
\* one whose seconds still convert to the platform's time_t.
MaxDatetimeMs == <<"2","5","3","4","0","2","3","0","0","7","9","9","9","9","9">>
MaxTimeTMs == <<"9","2","2","3","3","7","2","0","3","6","8","5","4","7","7","5","2","9","5","9","9","9">>

MsPerDay == 86400000

\* int(s) // 86400000 by long division, for s <= MaxDatetimeMs
RECURSIVE DivDay(_, _, _)
DivDay(s, q, r) ==
    IF Len(s) = 0 THEN q
    ELSE LET n == r * 10 + DigitVal(s[1])
         IN  DivDay(Tail(s), q * 10 + (n \div MsPerDay), n % MsPerDay)

\* Days since 1970-01-01 to the civil date <<year, month, day>> and back
CivilFromDays(z) ==
    LET zz == z + 719468
        era == zz \div 146097
        doe == zz - era * 146097
        yoe == (doe - (doe \div 1460) + (doe \div 36524) - (doe \div 146096)) \div 365
        doy == doe - (365 * yoe + (yoe \div 4) - (yoe \div 100))
        mp == (5 * doy + 2) \div 153
        d == doy - ((153 * mp + 2) \div 5) + 1
        m == IF mp < 10 THEN mp + 3 ELSE mp - 9
        y == yoe + era * 400 + (IF m <= 2 THEN 1 ELSE 0)
    IN  <<y, m, d>>
DaysFromCivil(y, m, d) ==
    LET yy == IF m <= 2 THEN y - 1 ELSE y
        era == yy \div 400
        yoe == yy - era * 400
        doy == ((153 * (IF m > 2 THEN m - 3 ELSE m + 9) + 2) \div 5) + d - 1
        doe == yoe * 365 + (yoe \div 4) - (yoe \div 100) + doy
    IN  era * 146097 + doe - 719468

\* strftime("%W"): week of the year, Monday first, days before the first Monday in week 0
WeekOfYear(z) ==
    LET y == CivilFromDays(z)[1]
        yday == z - DaysFromCivil(y, 1, 1)
        wday == (z + 4) % 7
    IN  (yday + 7 - ((wday + 6) % 7)) \div 7

\* The dict ms_to_date builds from a day number: "date" (%Y-%m-%d), "month" (%Y-%m)
\* and "week" (%Y-W%W) as tuples of their numbers.  The clock is UTC.
DateInfo(z) ==
    LET c == CivilFromDays(z)
    IN  <<"dict", [date |-> c, month |-> <<c[1], c[2]>>, week |-> <<c[1], WeekOfYear(z)>>]>>

\* The exceptions the try block of ms_to_date catches
Caught == {"ValueError", "OSError"}

\* datetime.fromtimestamp(int(ms_str) / 1000) for a truthy ms_str: the day number,
\* or the exception raised
ToTimestamp(v) ==
    IF IsInt(v) THEN Returned(v[2] \div MsPerDay)
    ELSE IF ~IsStr(v) THEN Raised("TypeError")
    ELSE IF ~IsNumeric(v[2]) THEN Raised("ValueError")
    ELSE IF NumLeq(v[2], MaxDatetimeMs) THEN Returned(DivDay(StripZeros(v[2]), 0, 0))
    ELSE IF NumLeq(v[2], MaxTimeTMs) THEN Raised("ValueError")
    ELSE Raised("OverflowError")

\* ms_to_date(ms_str)
ms_to_date(ms_str) ==
    IF ~Truthy(ms_str) THEN Returned(None)
    ELSE LET t == ToTimestamp(ms_str)
         IN  IF IsReturned(t) THEN Returned(DateInfo(t[2]))
             ELSE IF t[2] \in Caught THEN Returned(None)
             ELSE t

\* The fields best_date tries, in order; the variant follows the module docstring
DateFields_with_created == <<"due_date", "start_date", "date_created">>
DateFields == <<"due_date", "start_date">>

\* best_date(task): the loop over the fields from position k on
RECURSIVE best_date_from(_, _, _)
best_date_from(task, fields, k) ==
    IF k > Len(fields) THEN Returned(None)
    ELSE LET info == ms_to_date(Get(task, fields[k]))
         IN  IF IsRaised(info) THEN info
             ELSE IF ~IsNone(info[2]) THEN info
             ELSE best_date_from(task, fields, k + 1)
best_date(task) == best_date_from(task, DateFields, 1)

-----------------------------------------------------------------------------
(* Task records of the snapshot, as extract_task_fields writes them *)

NoCustomFields ==
    [budget |-> Absent, temps_vendu_jours |-> Absent, type_prestation |-> Absent,
     date_debut |-> Absent, date_fin |-> Absent]

BaseTask ==
    [id |-> PyStr(<<"t","0">>), name |-> PyStr(<<"D","i","v","e","r","s">>),
     list_name |-> None, folder_name |-> None,
     due_date |-> None, start_date |-> None, date_created |-> None, date_closed |-> None,
     time_estimate |-> PyInt(0), time_spent |-> PyInt(0),
     assignees |-> PyList(<<>>), status |-> PyStr(<<"o","p","e","n">>),
     folder_id |-> None, list_id |-> None,
     custom_fields |-> <<"dict", NoCustomFields>>]

\* The values of the variables of the fetch scripts when they do not run
NoFetch ==
    /\ responses = <<>>
    /\ todo = <<>>
    /\ seen_ids = {}
    /\ all_tasks = <<>>
    /\ all_meetings = <<>>
    /\ stats = <<>>
    /\ written = <<>>

\* The values of the variables a specification does not use
Idle ==
    /\ NoFetch
    /\ folder_names = <<>>
    /\ i = 0
    /\ ret = None
    /\ list_budgets = <<>>
    /\ folder_budgets = <<>>
    /\ entries = <<>>
    /\ skipped_no_estimate = 0
    /\ skipped_no_date = 0
    /\ skipped_no_assignee = 0

-----------------------------------------------------------------------------
(* The classifier alone: one task in, one label out *)

CatNames ==
    {Absent, None, PyStr(<<>>),
     PyStr(<<"R","e","s","t","i","t","u","t","i","o","n"," ","a","u","d","i","t"," ","c","l","i","e","n","t">>), PyStr(<<"K","i","c","k","o","f","f">>), PyStr(<<"A","u","d","i","t"," ","S","E","O">>),
     PyStr(<<"F","o","r","m","a","t","i","o","n"," ","S","E","O">>), PyStr(<<" ","W","i","k","i">>), PyStr(<<"C","P">>), PyStr(<<" ","F","é","r","i","é"," ">>),
     PyStr(<<"E","t","u","d","e"," ","l","e","x","i","c","a","l","e">>), PyStr(<<"R","é","d","a","c","t","i","o","n"," ","a","r","t","i","c","l","e">>), PyStr(<<"N","e","t","l","i","n","k","i","n","g">>),
     PyStr(<<"M","a","i","l","l","a","g","e">>), PyStr(<<"C","r","a","w","l">>), PyStr(<<"K","P","I">>), PyStr(<<"C","a","l","l">>),
     PyStr(<<"D","e","v","i","s">>), PyStr(<<"Y","o","u","d","r","o","n","e">>), PyStr(<<"D","i","v","e","r","s">>), PyStr(<<"P","r","o","s","p","e","c","t">>),
     PyStr(<<"A","t","e","l","i","e","r">>)}
CatListNames ==
    {Absent, None, PyStr(<<"P","l","a","n","i","f","i","c","a","t","i","o","n"," ","L","u","c","a","s">>), PyStr(<<"A","u","d","i","t">>), PyStr(<<"W","i","k","i"," ","f","o","r","m","a","t","i","o","n">>)}
CatFolderNames ==
    {Absent, None, PyStr(<<>>), PyStr(<<"S","L","A","S","H","R"," ","F","o","r","m","a","t","i","o","n"," ","I","n","t","e","r","n","e">>),
     PyStr(<<" ","A","v","a","n","t"," ","V","e","n","t","e"," ">>), PyStr(<<"S","L","A","S","H","R"," ","W","I","K","I","/","P","l","a","n","n","i","n","g">>)}

CatTasks ==
    {[BaseTask EXCEPT !.name = n, !.list_name = l, !.folder_name = f] :
        n \in CatNames, l \in CatListNames, f \in CatFolderNames}

InitCategorize ==
    /\ tasks \in {<<t>> : t \in CatTasks}
    /\ pc = "categorize"
    /\ Idle

CategorizeCall ==
    /\ pc = "categorize"
    /\ ret' = categorize(tasks[1])
    /\ pc' = "returned"
    /\ UNCHANGED <<fetch_vars, written, tasks, folder_names, i, list_budgets, folder_budgets, entries,
                   skipped_no_estimate, skipped_no_date, skipped_no_assignee>>

NextCategorize == CategorizeCall
SpecCategorize == InitCategorize /\ [][NextCategorize]_vars

-----------------------------------------------------------------------------
(* The date resolver alone: one task in, a date, None or an exception out *)

DateValues ==
    {Absent, None, PyStr(<<>>), PyStr(<<"0">>), PyStr(<<"8","6","4","0","0","0","0","0">>),
     PyStr(<<"1","7","3","0","5","9","2","0","0","0","0","0","0">>), PyStr(<<"2","5","3","4","0","2","3","0","0","7","9","9","9","9","9">>),
     PyStr(<<"a","b","c">>), PyStr(<<"2","5","3","4","0","2","3","0","0","8","0","0","0","0","0">>), PyStr(<<"9","9","9","9","9","9","9","9","9","9","9","9","9","9","9","9","9","9","9","9","9","9","9">>)}
CreatedValues == {None, PyStr(<<"1","7","0","0","0","0","0","0","0","0","0","0","0">>)}

DateTasks ==
    {[BaseTask EXCEPT !.due_date = d, !.start_date = s, !.date_created = c] :
        d \in DateValues, s \in DateValues, c \in CreatedValues}

InitDate ==
    /\ tasks \in {<<t>> : t \in DateTasks}
    /\ pc = "best_date"
    /\ Idle

\* best_date returns its value to the caller
BestDateReturn ==
    /\ pc = "best_date"
    /\ IsReturned(best_date(tasks[1]))
    /\ ret' = best_date(tasks[1])
    /\ pc' = "returned"
    /\ UNCHANGED <<fetch_vars, written, tasks, folder_names, i, list_budgets, folder_budgets, entries,
                   skipped_no_estimate, skipped_no_date, skipped_no_assignee>>

\* an exception of fromtimestamp that ms_to_date does not catch leaves best_date
BestDateRaise ==
    /\ pc = "best_date"
    /\ IsRaised(best_date(tasks[1]))
    /\ ret' = best_date(tasks[1])
    /\ pc' = "raised"
    /\ UNCHANGED <<fetch_vars, written, tasks, folder_names, i, list_budgets, folder_budgets, entries,
                   skipped_no_estimate, skipped_no_date, skipped_no_assignee>>

NextDate == BestDateReturn \/ BestDateRaise
SpecDate == InitDate /\ [][NextDate]_vars

-----------------------------------------------------------------------------
(* build_project_budgets *)

\* A JSON number of the custom fields, in thousandths
PyNum(th) == <<"num", th>>
IsNum(v) == v[1] = "num"
NumTruthy(v) == IF IsNum(v) THEN v[2] # 0 ELSE Truthy(v)

\* str(v) for the kinds of value an identifier has
RECURSIVE IntToDigits(_)
IntToDigits(n) == IF n < 10 THEN <<Digits[n + 1]>> ELSE IntToDigits(n \div 10) \o <<Digits[(n % 10) + 1]>>
PyStrOf(v) ==
    CASE IsStr(v) -> v
      [] IsInt(v) -> PyStr(IF v[2] < 0 THEN <<"-">> \o IntToDigits(-v[2]) ELSE IntToDigits(v[2]))
      [] OTHER -> PyStr(<<"N","o","n","e">>)

\* int(s) for a short str of digits
RECURSIVE DigitsToInt(_, _)
DigitsToInt(s, acc) == IF Len(s) = 0 THEN acc ELSE DigitsToInt(Tail(s), acc * 10 + DigitVal(s[1]))

\* float(v) in thousandths: a number, or a str of digits; any other str is a ValueError
ToFloat(v) ==
    IF IsNum(v) THEN Returned(v[2])
    ELSE IF IsInt(v) THEN Returned(v[2] * 1000)
    ELSE IF IsStr(v) /\ IsNumeric(v[2]) THEN Returned(DigitsToInt(v[2], 0) * 1000)
    ELSE IF IsStr(v) THEN Raised("ValueError")
    ELSE Raised("TypeError")

\* `float(v) if v else 0`
FloatOrZero(v) == IF NumTruthy(v) THEN ToFloat(v) ELSE Returned(0)

\* round(x, 2) of a value in thousandths, itself in thousandths (round half to even)
Round2(x) ==
    LET q == x \div 10
        r == x % 10
    IN  10 * (IF r < 5 THEN q ELSE IF r > 5 THEN q + 1 ELSE IF q % 2 = 0 THEN q ELSE q + 1)

\* round(b / t, 2) for b, t > 0 in the same unit, in thousandths
Round2Div(b, t) ==
    LET q0 == b \div t
        r0 == b % t
        d1 == (r0 * 10) \div t
        r1 == (r0 * 10) % t
        d2 == (r1 * 10) \div t
        r2 == (r1 * 10) % t
        h == q0 * 100 + d1 * 10 + d2
    IN  10 * (IF 2 * r2 < t THEN h ELSE IF 2 * r2 > t THEN h + 1
              ELSE IF h % 2 = 0 THEN h ELSE h + 1)

DEFAULT_TJM == 690

\* `if not cf`: custom_fields is missing, None or a dict without keys
DictKeys(d) == {k \in DOMAIN d : d[k] # Absent}
CfTruthy(cf) == cf[1] = "dict" /\ DictKeys(cf[2]) # {}

\* Whether the first loop keeps a task: the tests before the assignment
Qualifies(task) ==
    LET name == Lower(TextField(task, "name"))
        cf == GetOr(task, "custom_fields", <<"dict", NoCustomFields>>)
    IN  /\ IsStr(name)
        /\ Contains(name[2], <<"i","n","f","o","s"," ","g","l","o","b","a","l","e","s">>)
        /\ CfTruthy(cf)
        /\ ~(IsNone(Get(cf[2], "budget")) /\ IsNone(Get(cf[2], "temps_vendu_jours")))
        /\ NumTruthy(Get(task, "folder_id"))

\* The record the first loop stores for a task it keeps, or the exception of float()
ListBudget(task) ==
    LET cf == task.custom_fields[2]
        list_id == Get(task, "list_id")
        budget == FloatOrZero(Get(cf, "budget"))
        temps_vendu == FloatOrZero(Get(cf, "temps_vendu_jours"))
    IN  IF IsRaised(budget) THEN budget
        ELSE IF IsRaised(temps_vendu) THEN temps_vendu
        ELSE Returned([key |-> list_id,
                       folder_id |-> PyStrOf(Get(task, "folder_id")),
                       list_id |-> IF NumTruthy(list_id) THEN PyStrOf(list_id) ELSE PyStr(<<>>),
                       list_name |-> GetOr(task, "list_name", PyStr(<<>>)),
                       budget |-> budget[2],
                       temps_vendu_jours |-> temps_vendu[2],
                       type_prestation |-> GetOr(cf, "type_prestation", PyStr(<<>>)),
                       date_debut |-> Get(cf, "date_debut"),
                       date_fin |-> Get(cf, "date_fin")])

\* d[key] = value on an insertion-ordered dict: an existing key keeps its place;
\* the variant is d.setdefault(key, value)
DictPut_keep_first(d, rec) ==
    IF \E k \in 1..Len(d) : d[k].key = rec.key THEN d ELSE Append(d, rec)
DictPut(d, rec) ==
    IF \E k \in 1..Len(d) : d[k].key = rec.key
    THEN [k \in 1..Len(d) |-> IF d[k].key = rec.key THEN rec ELSE d[k]]
    ELSE Append(d, rec)

\* One iteration of the first loop: list_budgets after the task, or the exception
ScanTask(lbs, task) ==
    IF IsRaised(Lower(TextField(task, "name"))) THEN Lower(TextField(task, "name"))
    ELSE IF ~Qualifies(task) THEN Returned(lbs)
    ELSE LET lb == ListBudget(task)
         IN  IF IsRaised(lb) THEN lb ELSE Returned(DictPut(lbs, lb[2]))

\* The ISO date of a custom-field timestamp: None when falsy or when the
\* conversion raises ValueError or OSError; other exceptions leave the function
IsoDate(v) ==
    IF ~Truthy(v) THEN Returned(None)
    ELSE LET t == ToTimestamp(v)
         IN  IF IsReturned(t) THEN Returned(<<"date", CivilFromDays(t[2])>>)
             ELSE IF t[2] \in Caught THEN Returned(None)
             ELSE t

\* folder_names.get(fid, "")
LookupOr(lookup, key, default) == IF key \in DOMAIN lookup THEN lookup[key] ELSE default

\* `total += x`; the variant assigns
AddTo_assign(total, x) == x
AddTo(total, x) == total + x

FolderIndex(fbs, fid) == CHOOSE k \in 1..Len(fbs) : fbs[k].folder_id = fid

\* One iteration of the second loop: folder_budgets after the list record, or the
\* exception of a date conversion
AggregateList(fbs, lb, lookup) ==
    LET fid == lb.folder_id
        known == \E k \in 1..Len(fbs) : fbs[k].folder_id = fid
        fbs1 == IF known THEN fbs
                ELSE Append(fbs, [folder_id |-> fid,
                                  folder_name |-> LookupOr(lookup, fid[2], PyStr(<<>>)),
                                  budget |-> 0,
                                  temps_vendu_jours |-> 0,
                                  prestations |-> <<>>])
        n == FolderIndex(fbs1, fid)
        date_debut_iso == IsoDate(lb.date_debut)
        date_fin_iso == IsoDate(lb.date_fin)
    IN  IF IsRaised(date_debut_iso) THEN date_debut_iso
        ELSE IF IsRaised(date_fin_iso) THEN date_fin_iso
        ELSE Returned([fbs1 EXCEPT
                 ![n].budget = AddTo(@, lb.budget),
                 ![n].temps_vendu_jours = AddTo(@, lb.temps_vendu_jours),
                 ![n].prestations = Append(@, [list_name |-> lb.list_name,
                                               budget |-> lb.budget,
                                               temps_vendu_jours |-> lb.temps_vendu_jours,
                                               type_prestation |-> lb.type_prestation,
                                               date_debut |-> date_debut_iso[2],
                                               date_fin |-> date_fin_iso[2]])])

\* The test of the third loop: a rate is computed when both sums are positive; the
\* variant tests the sold days only
HasRate_days_only(fb) == fb.temps_vendu_jours > 0
HasRate(fb) == fb.temps_vendu_jours > 0 /\ fb.budget > 0

\* One iteration of the third loop
ComputeTjm(fb) ==
    [folder_id |-> fb.folder_id,
     folder_name |-> fb.folder_name,
     budget |-> Round2(fb.budget),
     temps_vendu_jours |-> Round2(fb.temps_vendu_jours),
     prestations |-> fb.prestations,
     tjm |-> IF HasRate(fb) THEN Round2Div(fb.budget, fb.temps_vendu_jours)
             ELSE DEFAULT_TJM * 1000]

-----------------------------------------------------------------------------
(* The budget aggregator alone, one loop iteration per step *)

MaxBudgetTasks == 2

FolderA == PyStr(<<"9","0","1">>)
FolderB == PyStr(<<"9","0","2">>)
ListA == PyStr(<<"L","1">>)
ListB == PyStr(<<"L","2">>)

\* custom_fields of global-info tasks: 10000 EUR for 10 days; "5000" EUR for 5 days
\* with an unparseable start date; 0.375 EUR for 0.125 day; 10000 EUR and no sold
\* days; a refund of 5000 EUR for 5 days
CfA == [NoCustomFields EXCEPT !.budget = PyNum(10000000), !.temps_vendu_jours = PyNum(10000),
            !.type_prestation = PyStr(<<"F","o","r","f","a","i","t">>), !.date_debut = PyStr(<<"1","7","3","0","5","9","2","0","0","0","0","0","0">>),
            !.date_fin = None]
CfB == [NoCustomFields EXCEPT !.budget = PyStr(<<"5","0","0","0">>), !.temps_vendu_jours = PyNum(5000),
            !.date_debut = PyStr(<<"a","b","c">>)]
CfC == [NoCustomFields EXCEPT !.budget = PyNum(375), !.temps_vendu_jours = PyNum(125)]
CfD == [NoCustomFields EXCEPT !.budget = PyNum(10000000)]
CfF == [NoCustomFields EXCEPT !.budget = PyNum(-5000000), !.temps_vendu_jours = PyNum(5000)]
\* no budget data but another key; a budget of zero; a budget that is no number; a
\* start date beyond time_t
CfNoData == [NoCustomFields EXCEPT !.budget = None, !.type_prestation = PyStr(<<"F","o","r","f","a","i","t">>)]
CfZero == [NoCustomFields EXCEPT !.budget = PyNum(0)]
CfBadBudget == [NoCustomFields EXCEPT !.budget = PyStr(<<"a","b","c">>), !.temps_vendu_jours = PyNum(5000)]
CfBadDate == [CfA EXCEPT !.date_debut = PyStr(<<"9","9","9","9","9","9","9","9","9","9","9","9","9","9","9","9","9","9","9","9","9","9","9">>)]

GlobalInfo(cf, list_id, folder_id) ==
    [BaseTask EXCEPT !.name = PyStr(<<"I","N","F","O","S"," ","G","L","O","B","A","L","E","S">>), !.custom_fields = <<"dict", cf>>,
                     !.list_id = list_id, !.list_name = list_id, !.folder_id = folder_id]

BudgetTasks ==
    {GlobalInfo(cf, l, f) : cf \in {CfA, CfB, CfC, CfD, CfF}, l \in {ListA, ListB},
                            f \in {FolderA, FolderB}}
    \cup {GlobalInfo(CfNoData, ListA, FolderA),
          GlobalInfo(CfZero, ListB, FolderB),
          GlobalInfo(CfA, None, FolderA),
          GlobalInfo(CfB, Absent, FolderB),
          GlobalInfo(CfA, ListA, None),
          GlobalInfo(CfB, ListB, PyInt(901)),
          GlobalInfo(NoCustomFields, ListA, FolderA),
          GlobalInfo(CfBadBudget, ListA, FolderA),
          GlobalInfo(CfBadDate, ListA, FolderA),
          [GlobalInfo(CfA, ListA, FolderA) EXCEPT !.custom_fields = None],
          [GlobalInfo(CfA, ListA, FolderA) EXCEPT !.name = PyStr(<<"S","u","i","v","i"," ","b","u","d","g","e","t">>)],
          [GlobalInfo(CfB, ListA, FolderA) EXCEPT !.name = PyStr(<<"C","l","i","e","n","t"," ","-"," ","I","n","f","o","s"," ","G","l","o","b","a","l","e","s">>)]}

BudgetLookup == [k \in {<<"9","0","1">>} |-> PyStr(<<"C","l","i","e","n","t"," ","A">>)]

InitBudgets ==
    /\ tasks \in UNION {[1..n -> BudgetTasks] : n \in 0..MaxBudgetTasks}
    /\ folder_names = BudgetLookup
    /\ pc = "scan"
    /\ i = 1
    /\ ret = None
    /\ list_budgets = <<>>
    /\ folder_budgets = <<>>
    /\ entries = <<>>
    /\ skipped_no_estimate = 0
    /\ skipped_no_date = 0
    /\ skipped_no_assignee = 0
    /\ NoFetch

UnchangedMain == UNCHANGED <<entries, skipped_no_estimate, skipped_no_date, skipped_no_assignee>>

\* first loop, one task
ScanStep ==
    /\ pc = "scan"
    /\ i <= Len(tasks)
    /\ IsReturned(ScanTask(list_budgets, tasks[i]))
    /\ list_budgets' = ScanTask(list_budgets, tasks[i])[2]
    /\ i' = i + 1
    /\ UNCHANGED <<fetch_vars, written, tasks, folder_names, pc, ret, folder_budgets>>
    /\ UnchangedMain

\* first loop, float() raises
ScanRaise ==
    /\ pc = "scan"
    /\ i <= Len(tasks)
    /\ IsRaised(ScanTask(list_budgets, tasks[i]))
    /\ ret' = ScanTask(list_budgets, tasks[i])
    /\ pc' = "raised"
    /\ UNCHANGED <<fetch_vars, written, tasks, folder_names, i, list_budgets, folder_budgets>>
    /\ UnchangedMain

ScanDone ==
    /\ pc = "scan"
    /\ i > Len(tasks)
    /\ pc' = "aggregate"
    /\ i' = 1
    /\ UNCHANGED <<fetch_vars, written, tasks, folder_names, ret, list_budgets, folder_budgets>>
    /\ UnchangedMain

\* second loop, one list record
AggregateStep ==
    /\ pc = "aggregate"
    /\ i <= Len(list_budgets)
    /\ IsReturned(AggregateList(folder_budgets, list_budgets[i], folder_names))
    /\ folder_budgets' = AggregateList(folder_budgets, list_budgets[i], folder_names)[2]
    /\ i' = i + 1
    /\ UNCHANGED <<fetch_vars, written, tasks, folder_names, pc, ret, list_budgets>>
    /\ UnchangedMain

\* second loop, a date conversion raises
AggregateRaise ==
    /\ pc = "aggregate"
    /\ i <= Len(list_budgets)
    /\ IsRaised(AggregateList(folder_budgets, list_budgets[i], folder_names))
    /\ ret' = AggregateList(folder_budgets, list_budgets[i], folder_names)
    /\ pc' = "raised"
    /\ UNCHANGED <<fetch_vars, written, tasks, folder_names, i, list_budgets, folder_budgets>>
    /\ UnchangedMain

AggregateDone ==
    /\ pc = "aggregate"
    /\ i > Len(list_budgets)
    /\ pc' = "tjm"
    /\ i' = 1
    /\ UNCHANGED <<fetch_vars, written, tasks, folder_names, ret, list_budgets, folder_budgets>>
    /\ UnchangedMain

\* third loop, one folder
TjmStep ==
    /\ pc = "tjm"
    /\ i <= Len(folder_budgets)
    /\ folder_budgets' = [folder_budgets EXCEPT ![i] = ComputeTjm(@)]
    /\ i' = i + 1
    /\ UNCHANGED <<fetch_vars, written, tasks, folder_names, pc, ret, list_budgets>>
    /\ UnchangedMain

BudgetsReturn ==
    /\ pc = "tjm"
    /\ i > Len(folder_budgets)
    /\ ret' = Returned(folder_budgets)
    /\ pc' = "returned"
    /\ UNCHANGED <<fetch_vars, written, tasks, folder_names, i, list_budgets, folder_budgets>>
    /\ UnchangedMain

NextBudgets ==
    \/ ScanStep \/ ScanRaise \/ ScanDone
    \/ AggregateStep \/ AggregateRaise \/ AggregateDone
    \/ TjmStep \/ BudgetsReturn
SpecBudgets == InitBudgets /\ [][NextBudgets]_vars

-----------------------------------------------------------------------------
(* main: the entry-building loop, the sort and the artifact *)

MS_PER_HOUR == 3600000

\* `task.get("time_estimate", 0) or 0`, `task.get("time_spent", 0) or 0`
EstMs(task) == PyOr(GetOr(task, "time_estimate", PyInt(0)), PyInt(0))[2]
SpentMs(task) == PyOr(GetOr(task, "time_spent", PyInt(0)), PyInt(0))[2]

\* est_hours = round(est_ms / MS_PER_HOUR, 2), in thousandths of an hour; the
\* variants split the estimate between the assignees, and take the time spent
\* when there is some
TaskHours_spent(task) ==
    Round2Div(IF SpentMs(task) > 0 THEN SpentMs(task) ELSE EstMs(task), MS_PER_HOUR)
TaskHours_split(task) == Round2Div(EstMs(task), MS_PER_HOUR * Len(task.assignees[2]))
TaskHours(task) == Round2Div(EstMs(task), MS_PER_HOUR)
SpentHours(task) == Round2Div(SpentMs(task), MS_PER_HOUR)

\* The gates of the loop, in source order
NoEstimate(task) == EstMs(task) <= 0
NoDate(task) == IsNone(best_date(task)[2])
NoAssignee(task) == ~Truthy(GetOr(task, "assignees", PyList(<<>>)))

\* The resolved folder name: the lookup by str(folder_id) first, then the task's
\* own; the variant keeps the task's own name when it has one
FolderName_own_first(task, lookup) ==
    LET folder_id == GetOr(task, "folder_id", PyStr(<<>>))
        folder_name == GetOr(task, "folder_name", PyStr(<<>>))
    IN  IF ~Truthy(folder_name) /\ NumTruthy(folder_id) /\ PyStrOf(folder_id)[2] \in DOMAIN lookup
        THEN lookup[PyStrOf(folder_id)[2]]
        ELSE folder_name
FolderName(task, lookup) ==
    LET folder_id == GetOr(task, "folder_id", PyStr(<<>>))
        folder_name == GetOr(task, "folder_name", PyStr(<<>>))
    IN  IF NumTruthy(folder_id) /\ PyStrOf(folder_id)[2] \in DOMAIN lookup
        THEN lookup[PyStrOf(folder_id)[2]]
        ELSE folder_name

\* username or email or str(id)
UserOf(assignee) ==
    PyOr(Get(assignee, "username"), PyOr(Get(assignee, "email"), PyStrOf(Get(assignee, "id"))))

\* The entry appended for one assignee of a task
Entry(task, assignee, lookup) ==
    LET folder_id == GetOr(task, "folder_id", PyStr(<<>>))
        date_info == best_date(task)[2][2]
    IN  [user |-> UserOf(assignee),
         user_id |-> Get(assignee, "id"),
         project |-> PyOr(FolderName(task, lookup), PyStr(<<"(","s","a","n","s"," ","d","o","s","s","i","e","r",")">>)),
         folder_id |-> IF NumTruthy(folder_id) THEN PyStrOf(folder_id) ELSE PyStr(<<>>),
         list_name |-> GetOr(task, "list_name", PyStr(<<>>)),
         task |-> GetOr(task, "name", PyStr(<<>>)),
         task_id |-> GetOr(task, "id", PyStr(<<>>)),
         hours |-> TaskHours(task),
         spent_hours |-> SpentHours(task),
         date |-> date_info.date,
         month |-> date_info.month,
         week |-> date_info.week,
         status |-> GetOr(task, "status", PyStr(<<>>)),
         closed |-> ~IsNone(Get(task, "date_closed")),
         category |-> categorize(task)[2],
         source |-> "time_estimate"]

\* The entries of a task that passed the gates, one per assignee in order
EntriesOf(task, lookup) ==
    LET assignees == task.assignees[2]
    IN  [k \in 1..Len(assignees) |-> Entry(task, assignees[k], lookup)]

\* e["date"] <= f["date"] on the "%Y-%m-%d" strings of four-digit years
DateLeq(a, b) ==
    \/ a[1] < b[1]
    \/ a[1] = b[1] /\ a[2] < b[2]
    \/ a[1] = b[1] /\ a[2] = b[2] /\ a[3] <= b[3]

\* entries.sort(key=lambda e: e["date"]): a stable sort; the variant puts an
\* entry before the entries of the same date
RECURSIVE InsertByDate_before_ties(_, _)
InsertByDate_before_ties(sorted, e) ==
    IF Len(sorted) = 0 THEN <<e>>
    ELSE IF sorted[Len(sorted)].date # e.date /\ DateLeq(sorted[Len(sorted)].date, e.date)
    THEN Append(sorted, e)
    ELSE Append(InsertByDate_before_ties(SubSeq(sorted, 1, Len(sorted) - 1), e),
                sorted[Len(sorted)])
RECURSIVE InsertByDate(_, _)
InsertByDate(sorted, e) ==
    IF Len(sorted) = 0 THEN <<e>>
    ELSE IF DateLeq(sorted[Len(sorted)].date, e.date) THEN Append(sorted, e)
    ELSE Append(InsertByDate(SubSeq(sorted, 1, Len(sorted) - 1), e), sorted[Len(sorted)])
RECURSIVE SortByDate(_)
SortByDate(es) ==
    IF Len(es) = 0 THEN <<>>
    ELSE InsertByDate(SortByDate(SubSeq(es, 1, Len(es) - 1)), es[Len(es)])

\* budgets_by_name: the folder records with a truthy name, keyed by that name
RECURSIVE BudgetsByName(_, _)
BudgetsByName(fbs, k) ==
    IF k = 0 THEN <<>>
    ELSE LET rest == BudgetsByName(fbs, k - 1)
             fb == fbs[k]
         IN  IF ~Truthy(fb.folder_name) THEN rest
             ELSE DictPut(rest, [key |-> fb.folder_name,
                                 budget |-> fb.budget,
                                 temps_vendu_jours |-> fb.temps_vendu_jours,
                                 tjm |-> fb.tjm,
                                 prestations |-> fb.prestations])

-----------------------------------------------------------------------------
(* The pipeline: main from the loaded snapshot to the artifact *)

MaxTasks == 2

Ben == [id |-> PyInt(1), username |-> PyStr(<<"b","e","n">>), email |-> PyStr(<<"b","e","n","@","x",".","f","r">>)]
Lucas == [id |-> PyInt(2), username |-> None, email |-> PyStr(<<"l","u","c","a","s","@","x",".","f","r">>)]
Guest == [id |-> PyInt(3), username |-> None, email |-> None]
Nobody == [id |-> None, username |-> None, email |-> None]

\* <<due_date, start_date>>: none; 2024-11-03 due and 1970-01-02 start; an
\* unparseable due date before a start date; a due date beyond time_t
NoDates == <<None, None>>
Scheduled == <<PyStr(<<"1","7","3","0","5","9","2","0","0","0","0","0","0">>), PyStr(<<"8","6","4","0","0","0","0","0">>)>>
BadDue == <<PyStr(<<"a","b","c">>), PyStr(<<"8","6","4","0","0","0","0","0">>)>>
HugeDue == <<PyStr(<<"9","9","9","9","9","9","9","9","9","9","9","9","9","9","9","9","9","9","9","9","9","9","9">>), PyStr(<<"8","6","4","0","0","0","0","0">>)>>

EstimatedTask(e, d, a) ==
    [BaseTask EXCEPT !.time_estimate = e, !.due_date = d[1], !.start_date = d[2],
                     !.date_created = PyStr(<<"1","7","0","0","0","0","0","0","0","0","0","0","0">>), !.assignees = PyList(a)]

\* A two-hour task of Ben due on 2024-11-03, in a folder
FolderTask(folder_id, folder_name) ==
    [EstimatedTask(PyInt(7200000), <<PyStr(<<"1","7","3","0","5","9","2","0","0","0","0","0","0">>), None>>, <<Ben>>)
        EXCEPT !.folder_id = folder_id, !.folder_name = folder_name]

MainTasks ==
    {EstimatedTask(PyInt(7200000), NoDates, <<>>),
     EstimatedTask(PyInt(7200000), NoDates, <<Ben>>),
     EstimatedTask(PyInt(7200000), Scheduled, <<Ben>>),
     EstimatedTask(PyInt(7200000), Scheduled, <<Ben, Lucas, Guest>>),
     EstimatedTask(PyInt(7200000), BadDue, <<>>),
     EstimatedTask(PyInt(7200000), BadDue, <<Ben>>),
     EstimatedTask(PyInt(7200000), HugeDue, <<Ben>>),
     EstimatedTask(PyInt(7200000), <<PyStr(<<"1","7","3","0","5","9","2","0","0","0","0","0","0">>), None>>, <<Nobody>>),
     EstimatedTask(PyInt(0), NoDates, <<>>),
     EstimatedTask(None, Scheduled, <<Ben, Lucas, Guest>>),
     [BaseTask EXCEPT !.time_estimate = PyInt(5400000), !.time_spent = PyInt(1000000),
                      !.due_date = PyStr(<<"0">>), !.assignees = Absent,
                      !.date_closed = PyStr(<<"1","7","3","0","5","9","2","0","0","0","0","0","0">>)],
     [GlobalInfo(CfA, ListA, FolderA) EXCEPT !.folder_name = PyStr(<<"D","o","s","s","i","e","r"," ","A">>),
                      !.time_estimate = PyInt(3600000), !.time_spent = PyInt(1800000),
                      !.start_date = PyStr(<<"8","6","4","0","0","0","0","0">>), !.assignees = PyList(<<Lucas>>)],
     FolderTask(FolderB, PyStr(<<"D","o","s","s","i","e","r"," ","B">>)),
     FolderTask(None, PyStr(<<"I","n","t","e","r","n","e">>)),
     FolderTask(PyInt(901), PyStr(<<>>)),
     FolderTask(PyStr(<<"9","0","3">>), PyStr(<<"D","o","s","s","i","e","r"," ","C">>)),
     GlobalInfo(CfBadBudget, ListB, FolderB),
     GlobalInfo(CfBadDate, ListB, FolderB),
     GlobalInfo(CfB, ListB, FolderB),
     GlobalInfo(CfC, PyStr(<<"L","3">>), PyStr(<<"9","0","4">>))}

\* The ids of a snapshot are distinct (the fetch deduplicates by id)
TaskId(k) == PyStr(<<"t">> \o IntToDigits(k))
WithIds(f) == [k \in 1..Len(f) |-> [f[k] EXCEPT !.id = TaskId(k)]]

\* folder_mapping_full.json: one name for the folders 901 and 904, an empty one
\* for 903, none for 902
FolderLookup ==
    (<<"9","0","1">> :> PyStr(<<"C","l","i","e","n","t"," ","A">>)) @@ (<<"9","0","3">> :> PyStr(<<>>)) @@ (<<"9","0","4">> :> PyStr(<<"C","l","i","e","n","t"," ","A">>))

Init ==
    /\ \E n \in 0..MaxTasks : \E f \in [1..n -> MainTasks] : tasks = WithIds(f)
    /\ folder_names = FolderLookup
    /\ pc = "load"
    /\ i = 1
    /\ ret = None
    /\ list_budgets = <<>>
    /\ folder_budgets = <<>>
    /\ entries = <<>>
    /\ skipped_no_estimate = 0
    /\ skipped_no_date = 0
    /\ skipped_no_assignee = 0
    /\ NoFetch

File(name, content) == [file |-> name, content |-> content]

UnchangedBudgets == UNCHANGED <<list_budgets, folder_budgets>>
UnchangedCounters == UNCHANGED <<skipped_no_estimate, skipped_no_date, skipped_no_assignee>>

\* json.load of the snapshot and of the folder lookup
LoadSnapshot ==
    /\ pc = "load"
    /\ pc' = "scan"
    /\ UNCHANGED <<fetch_vars, written, tasks, folder_names, i, ret, entries>>
    /\ UnchangedBudgets
    /\ UnchangedCounters

\* open() or json.load raises: the exception leaves main
LoadFails ==
    /\ pc = "load"
    /\ pc' = "aborted"
    /\ \E e \in {"OSError", "JSONDecodeError"} : ret' = Raised(e)
    /\ UNCHANGED <<fetch_vars, written, tasks, folder_names, i, entries>>
    /\ UnchangedBudgets
    /\ UnchangedCounters

\* project_budgets = build_project_budgets(tasks, folder_names), then the loop starts
StartLoop ==
    /\ pc = "returned"
    /\ pc' = "loop"
    /\ i' = 1
    /\ UNCHANGED <<fetch_vars, written, tasks, folder_names, ret, entries>>
    /\ UnchangedBudgets
    /\ UnchangedCounters

LoopOn == pc = "loop" /\ i <= Len(tasks)
LoopNext ==
    /\ i' = i + 1
    /\ UNCHANGED <<fetch_vars, written, tasks, folder_names, pc, ret>>
    /\ UnchangedBudgets

\* est_ms <= 0
SkipNoEstimate ==
    /\ LoopOn
    /\ NoEstimate(tasks[i])
    /\ skipped_no_estimate' = skipped_no_estimate + 1
    /\ UNCHANGED <<entries, skipped_no_date, skipped_no_assignee>>
    /\ LoopNext

\* best_date(task) is None
SkipNoDate ==
    /\ LoopOn
    /\ ~NoEstimate(tasks[i])
    /\ IsReturned(best_date(tasks[i]))
    /\ NoDate(tasks[i])
    /\ skipped_no_date' = skipped_no_date + 1
    /\ UNCHANGED <<entries, skipped_no_estimate, skipped_no_assignee>>
    /\ LoopNext

\* best_date(task) raises: the exception leaves main
DateRaise ==
    /\ LoopOn
    /\ ~NoEstimate(tasks[i])
    /\ IsRaised(best_date(tasks[i]))
    /\ pc' = "crashed"
    /\ ret' = best_date(tasks[i])
    /\ UNCHANGED <<fetch_vars, written, tasks, folder_names, i, entries>>
    /\ UnchangedBudgets
    /\ UnchangedCounters

\* no assignees
SkipNoAssignee ==
    /\ LoopOn
    /\ ~NoEstimate(tasks[i])
    /\ IsReturned(best_date(tasks[i]))
    /\ ~NoDate(tasks[i])
    /\ NoAssignee(tasks[i])
    /\ skipped_no_assignee' = skipped_no_assignee + 1
    /\ UNCHANGED <<entries, skipped_no_estimate, skipped_no_date>>
    /\ LoopNext

\* one entry per assignee
EmitEntries ==
    /\ LoopOn
    /\ ~NoEstimate(tasks[i])
    /\ IsReturned(best_date(tasks[i]))
    /\ ~NoDate(tasks[i])
    /\ ~NoAssignee(tasks[i])
    /\ IsReturned(categorize(tasks[i]))
    /\ entries' = entries \o EntriesOf(tasks[i], folder_names)
    /\ UnchangedCounters
    /\ LoopNext

\* entries.sort(key=lambda e: e["date"])
SortEntries ==
    /\ pc = "loop"
    /\ i > Len(tasks)
    /\ entries' = SortByDate(entries)
    /\ pc' = "save"
    /\ UNCHANGED <<fetch_vars, written, tasks, folder_names, i, ret>>
    /\ UnchangedBudgets
    /\ UnchangedCounters

\* the artifact {"entries": ..., "project_budgets": budgets_by_name} is written to
\* OUTPUT_JSON, and its two parts to OUTPUT_JS
SaveOutput ==
    /\ pc = "save"
    /\ ret' = Returned([entries |-> entries,
                        project_budgets |-> BudgetsByName(folder_budgets, Len(folder_budgets))])
    /\ written' = written \o <<File("dashboard_data.json", ret'[2]), File("data.js", ret'[2])>>
    /\ pc' = "done"
    /\ UNCHANGED <<fetch_vars, tasks, folder_names, i, entries>>
    /\ UnchangedBudgets
    /\ UnchangedCounters

Next ==
    \/ LoadSnapshot \/ LoadFails
    \/ ScanStep \/ ScanRaise \/ ScanDone
    \/ AggregateStep \/ AggregateRaise \/ AggregateDone
    \/ TjmStep \/ BudgetsReturn
    \/ StartLoop
    \/ SkipNoEstimate \/ SkipNoDate \/ DateRaise \/ SkipNoAssignee \/ EmitEntries
    \/ SortEntries \/ SaveOutput
Spec == Init /\ [][Next]_vars

\* main called again on the same two input files.  Its locals at the start of a
\* call are entries = [] and the three counters at 0, whatever the call before
\* left (the variant keeps the entries of the call before); the files stay
MaxRuns == 2
Locals_kept(previous) == [entries |-> previous, skipped |-> 0]
Locals(previous) == [entries |-> <<>>, skipped |-> 0]
Rerun ==
    /\ pc = "done"
    /\ Len(written) < 2 * MaxRuns
    /\ pc' = "load"
    /\ i' = 1
    /\ ret' = None
    /\ list_budgets' = <<>>
    /\ folder_budgets' = <<>>
    /\ entries' = Locals(entries).entries
    /\ skipped_no_estimate' = Locals(entries).skipped
    /\ skipped_no_date' = Locals(entries).skipped
    /\ skipped_no_assignee' = Locals(entries).skipped
    /\ UNCHANGED <<fetch_vars, written, tasks, folder_names>>
NextRerun == Next \/ Rerun
SpecRerun == Init /\ [][NextRerun]_vars

-----------------------------------------------------------------------------
(* src/fetch_task_estimates.py: the crawl of the workspace.  Of a task the crawl
   reads only its id, so a task is its id here.  The nested loops of
   fetch_all_tasks are the queue todo: a request is taken at its head and the
   requests it leads to are put in its place, which is the order of the loops. *)

PAGE_SIZE == 100

\* fetch_paginated: pages are requested from page 0 on and concatenated, until a
\* page holds fewer than PAGE_SIZE tasks
RECURSIVE FetchPages(_, _)
FetchPages(pages, page) ==
    LET got == IF page + 1 <= Len(pages) THEN pages[page + 1] ELSE <<>>
    IN  IF Len(got) < PAGE_SIZE THEN got ELSE got \o FetchPages(pages, page + 1)
fetch_paginated(pages) == FetchPages(pages, 0)

\* {t["id"] for t in tasks}
Ids(ts) == {ts[k] : k \in 1..Len(ts)}

\* new_tasks = [t for t in tasks if t["id"] not in seen_ids]
NewTasks(ts, seen) == SelectSeq(ts, LAMBDA t : t \notin seen)

\* the two requests of fetch_all_folders_in_space, fetch_all_lists_in_folder and
\* fetch_folderless_lists: not archived, then archived
BothFlags(answer) == answer["false"] \o answer["true"]

\* the body of "for space in ...": its folders, then its folderless lists
SpaceRequests(spaces) ==
    [k \in 1..(2 * Len(spaces)) |->
        IF k % 2 = 1 THEN <<"folders", spaces[(k + 1) \div 2]>>
                     ELSE <<"folderless", spaces[k \div 2]>>]
Requests(kind, ids) == [k \in 1..Len(ids) |-> <<kind, ids[k]>>]

\* Sample answers of the API.  A full page is PAGE_SIZE tasks, the last of them x
TaskA == TaskId(PAGE_SIZE)
TaskB == TaskId(PAGE_SIZE + 1)
TaskC == TaskId(PAGE_SIZE + 2)
FullPage(x) == [k \in 1..PAGE_SIZE |-> IF k = PAGE_SIZE THEN x ELSE TaskId(k)]
WorkspaceAnswers ==
    {<< <<>> >>, << <<TaskA>> >>, <<FullPage(TaskA), <<TaskB>>>>, <<FullPage(TaskA), <<TaskA>>>>}
ListAnswers ==
    {<< <<>> >>, << <<TaskA>> >>, << <<TaskB, TaskC>> >>, <<FullPage(TaskC), <<TaskC>>>>}
Flags(a, b) == ("false" :> a) @@ ("true" :> b)
\* an active space S1 with an empty folder F2 and a folder F1 of two lists, one of
\* them archived; an archived space S2 with one folderless list
Workspace(ws, l1, l2, l3) ==
    [workspace  |-> ws,
     spaces     |-> Flags(<<"S1">>, <<"S2">>),
     folders    |-> ("S1" :> Flags(<<"F1">>, <<"F2">>)) @@ ("S2" :> Flags(<<>>, <<>>)),
     lists      |-> ("F1" :> Flags(<<"L1">>, <<"L2">>)) @@ ("F2" :> Flags(<<>>, <<>>)),
     folderless |-> ("S1" :> Flags(<<>>, <<>>)) @@ ("S2" :> Flags(<<>>, <<"L3">>)),
     tasks      |-> ("L1" :> l1) @@ ("L2" :> l2) @@ ("L3" :> l3)]

\* The variables of build_dashboard_data.py when it does not run
NoBuild ==
    /\ tasks = <<>>
    /\ folder_names = <<>>
    /\ i = 0
    /\ list_budgets = <<>>
    /\ folder_budgets = <<>>
    /\ entries = <<>>
    /\ skipped_no_estimate = 0
    /\ skipped_no_date = 0
    /\ skipped_no_assignee = 0
UnchangedBuild ==
    UNCHANGED <<tasks, folder_names, i, list_budgets, folder_budgets, entries,
                skipped_no_estimate, skipped_no_date, skipped_no_assignee>>

InitFetch ==
    /\ \E ws \in WorkspaceAnswers : \E l1 \in ListAnswers, l2 \in ListAnswers, l3 \in ListAnswers :
           responses = Workspace(ws, l1, l2, l3)
    /\ todo = << <<"workspace">>, <<"spaces", "false">>, <<"spaces", "true">> >>
    /\ seen_ids = {}
    /\ all_tasks = <<>>
    /\ all_meetings = <<>>
    /\ stats = <<>>
    /\ written = <<>>
    /\ pc = "fetch"
    /\ ret = None
    /\ NoBuild

Requesting(kind) == pc = "fetch" /\ todo # <<>> /\ Head(todo)[1] = kind
Crawling == UNCHANGED <<responses, all_meetings, stats, written, pc, ret>> /\ UnchangedBuild

\* 1) the workspace endpoint: its tasks start the result, their ids start seen_ids
FetchWorkspace ==
    /\ Requesting("workspace")
    /\ all_tasks' = fetch_paginated(responses.workspace)
    /\ seen_ids' = Ids(all_tasks')
    /\ todo' = Tail(todo)
    /\ Crawling

\* 2) and 3) the spaces of the team, active then archived
FetchSpaces ==
    /\ Requesting("spaces")
    /\ todo' = SpaceRequests(responses.spaces[Head(todo)[2]]) \o Tail(todo)
    /\ UNCHANGED <<seen_ids, all_tasks>>
    /\ Crawling

\* fetch_all_folders_in_space
FetchFolders ==
    /\ Requesting("folders")
    /\ todo' = Requests("lists", BothFlags(responses.folders[Head(todo)[2]])) \o Tail(todo)
    /\ UNCHANGED <<seen_ids, all_tasks>>
    /\ Crawling

\* fetch_all_lists_in_folder
FetchFolderLists ==
    /\ Requesting("lists")
    /\ todo' = Requests("tasks", BothFlags(responses.lists[Head(todo)[2]])) \o Tail(todo)
    /\ UNCHANGED <<seen_ids, all_tasks>>
    /\ Crawling

\* fetch_folderless_lists
FetchFolderless ==
    /\ Requesting("folderless")
    /\ todo' = Requests("tasks", BothFlags(responses.folderless[Head(todo)[2]])) \o Tail(todo)
    /\ UNCHANGED <<seen_ids, all_tasks>>
    /\ Crawling

\* fetch_lists_tasks, one list: the tasks of the list whose id was not seen
\* before this list are appended, then their ids are added to seen_ids
FetchListTasks ==
    /\ Requesting("tasks")
    /\ LET new_tasks == NewTasks(fetch_paginated(responses.tasks[Head(todo)[2]]), seen_ids)
       IN  /\ all_tasks' = all_tasks \o new_tasks
           /\ seen_ids' = seen_ids \cup Ids(new_tasks)
    /\ todo' = Tail(todo)
    /\ Crawling

\* resp.raise_for_status() raises: the exception leaves fetch_all_tasks and main
RequestFails ==
    /\ pc = "fetch"
    /\ todo # <<>>
    /\ pc' = "aborted"
    /\ ret' = Raised("HTTPError")
    /\ UNCHANGED <<fetch_vars, written>>
    /\ UnchangedBuild

\* return all_tasks
FetchReturn ==
    /\ pc = "fetch"
    /\ todo = <<>>
    /\ ret' = Returned(all_tasks)
    /\ pc' = "fetched"
    /\ UNCHANGED <<fetch_vars, written>>
    /\ UnchangedBuild

\* main: the tasks go to RAW_FILE, then their summary to SUMMARY_FILE
WriteSnapshot ==
    /\ pc = "fetched"
    /\ written' = written \o <<File("all_tasks_raw.json", ret[2]),
                              File("task_estimates_summary.json", [total_tasks_fetched |-> Len(ret[2])])>>
    /\ pc' = "done"
    /\ UNCHANGED <<fetch_vars, ret>>
    /\ UnchangedBuild

NextFetch ==
    \/ FetchWorkspace \/ FetchSpaces \/ FetchFolders \/ FetchFolderLists \/ FetchFolderless
    \/ FetchListTasks \/ RequestFails \/ FetchReturn \/ WriteSnapshot
SpecFetch == InitFetch /\ [][NextFetch]_vars

-----------------------------------------------------------------------------
(* src/fetch_google_calendar.py: the meetings of every consultant.  An event is
   what main reads of it: its status, the consultant's own responseStatus, the
   results of classify_meeting and event_duration_hours (in thousandths of an
   hour) and the day of start.dateTime (<<>> when there is none). *)

\* sorted(CONSULTANTS.items()): the usernames in the order of the loop
CONSULTANTS ==
    <<"Anthony", "Benoit Demonchaux", "Lucas Colin", "Maxime Legru",
      "Pierre-Antoine Henneau", "Quentin Clément", "Tom Chemin">>

Event(status, response, type, hours, date) ==
    [status |-> status, response |-> response, type |-> type, hours |-> hours, date |-> date]

\* the five "continue" of the loop over the events
KeptEvent(event) ==
    /\ event.status # "cancelled"
    /\ event.response # "declined"
    /\ event.type # "None"
    /\ ~(event.hours <= 0 \/ event.hours > 12000)
    /\ event.date # <<>>

Meeting(username, event) ==
    [user |-> username, date |-> event.date, hours |-> event.hours, type |-> event.type]
MeetingsOf(username, events) ==
    LET kept == SelectSeq(events, KeptEvent)
    IN  [k \in 1..Len(kept) |-> Meeting(username, kept[k])]

RECURSIVE SumHours(_)
SumHours(ms) == IF ms = <<>> THEN 0 ELSE ms[1].hours + SumHours(Tail(ms))

\* round(user_hours, 1) of a value in thousandths (round half to even)
Round1(x) ==
    LET q == x \div 100
        r == x % 100
    IN  100 * (IF r < 50 THEN q ELSE IF r > 50 THEN q + 1 ELSE IF q % 2 = 0 THEN q ELSE q + 1)

\* stats[username]
StatsOf(ms) ==
    LET internal == Len(SelectSeq(ms, LAMBDA m : m.type = "internal"))
        external == Len(ms) - internal
    IN  [total_events |-> internal + external, internal |-> internal,
         external |-> external, total_hours |-> Round1(SumHours(ms))]

\* all_meetings.sort(key=lambda m: (m["date"], m["user"])), a stable sort
Rank(username) == CHOOSE k \in 1..Len(CONSULTANTS) : CONSULTANTS[k] = username
MeetingLeq(a, b) ==
    \/ a.date # b.date /\ DateLeq(a.date, b.date)
    \/ a.date = b.date /\ Rank(a.user) <= Rank(b.user)
RECURSIVE InsertMeeting(_, _)
InsertMeeting(sorted, m) ==
    IF Len(sorted) = 0 THEN <<m>>
    ELSE IF MeetingLeq(sorted[Len(sorted)], m) THEN Append(sorted, m)
    ELSE Append(InsertMeeting(SubSeq(sorted, 1, Len(sorted) - 1), m), sorted[Len(sorted)])
RECURSIVE SortMeetings(_)
SortMeetings(ms) ==
    IF Len(ms) = 0 THEN <<>>
    ELSE InsertMeeting(SortMeetings(SubSeq(ms, 1, Len(ms) - 1)), ms[Len(ms)])

\* Sample answers of the Calendar API for one consultant: the request raises, or
\* it returns events
OneMeeting ==
    <<Event("confirmed", "accepted", "internal", 1000, <<2024, 3, 5>>),
      Event("cancelled", "accepted", "internal", 1000, <<2024, 3, 5>>)>>
MixedEvents ==
    <<Event("confirmed", "None", "external", 1250, <<2024, 3, 4>>),
      Event("confirmed", "declined", "internal", 500, <<2024, 3, 4>>),
      Event("confirmed", "accepted", "None", 500, <<2024, 3, 4>>),
      Event("confirmed", "accepted", "internal", 12500, <<2024, 3, 4>>),
      Event("confirmed", "accepted", "internal", 0, <<>>)>>
CalendarAnswers == {Raised("HttpError"), Returned(OneMeeting), Returned(MixedEvents)}

InitCalendar ==
    /\ responses \in [{CONSULTANTS[k] : k \in 1..Len(CONSULTANTS)} -> CalendarAnswers]
    /\ todo = <<>>
    /\ seen_ids = {}
    /\ all_tasks = <<>>
    /\ all_meetings = <<>>
    /\ stats = <<>>
    /\ written = <<>>
    /\ pc = "key"
    /\ ret = None
    /\ NoBuild

UnchangedCrawl == UNCHANGED <<responses, todo, seen_ids, all_tasks>>

\* if not SA_KEY_FILE.exists(): return
KeyMissing ==
    /\ pc = "key"
    /\ pc' = "done"
    /\ ret' = Returned(None)
    /\ UNCHANGED <<fetch_vars, written>>
    /\ UnchangedBuild

KeyFound ==
    /\ pc = "key"
    /\ pc' = "consultants"
    /\ i' = 1
    /\ UNCHANGED <<fetch_vars, written, ret, tasks, folder_names, list_budgets, folder_budgets,
                   entries, skipped_no_estimate, skipped_no_date, skipped_no_assignee>>

NextConsultant ==
    /\ pc = "consultants"
    /\ i <= Len(CONSULTANTS)
    /\ i' = i + 1
    /\ UnchangedCrawl
    /\ UNCHANGED <<written, pc, ret, tasks, folder_names, list_budgets, folder_budgets,
                   entries, skipped_no_estimate, skipped_no_date, skipped_no_assignee>>

\* except Exception as e: print, continue
ConsultantFails ==
    /\ NextConsultant
    /\ IsRaised(responses[CONSULTANTS[i]])
    /\ UNCHANGED <<all_meetings, stats>>

\* the events of the consultant: the meetings kept, and stats[username]
ConsultantFetched ==
    /\ NextConsultant
    /\ IsReturned(responses[CONSULTANTS[i]])
    /\ LET username == CONSULTANTS[i]
           meetings == MeetingsOf(username, responses[username][2])
       IN  /\ all_meetings' = all_meetings \o meetings
           /\ stats' = stats @@ (username :> StatsOf(meetings))

\* the sort, then json.dump(output, f) to OUTPUT_FILE
WriteMeetings ==
    /\ pc = "consultants"
    /\ i > Len(CONSULTANTS)
    /\ all_meetings' = SortMeetings(all_meetings)
    /\ ret' = Returned([stats |-> stats, meetings |-> all_meetings'])
    /\ written' = written \o <<File("calendar_meetings.json", ret'[2])>>
    /\ pc' = "done"
    /\ UNCHANGED stats
    /\ UnchangedCrawl
    /\ UnchangedBuild

NextCalendar ==
    \/ KeyMissing \/ KeyFound \/ ConsultantFails \/ ConsultantFetched \/ WriteMeetings
SpecCalendar == InitCalendar /\ [][NextCalendar]_vars

-----------------------------------------------------------------------------
(* Properties of the classifier, checked under SpecCategorize *)

\* The lowered texts categorize works on, for a task whose text fields are str or missing
TextOf(v) == IF IsStr(v) THEN LowerSeq(v[2]) ELSE <<>>
NameOf(task) == TextOf(task.name)
CombinedOf(task) ==
    TextOf(task.name) \o <<" ">> \o TextOf(task.list_name) \o <<" ">> \o TextOf(task.folder_name)

\* The precedence table: whether rule k holds on a task, and the label it gives
RuleHolds(k, task) ==
    LET n == NameOf(task)
        l == TextOf(task.list_name)
        f == TextOf(task.folder_name)
        c == CombinedOf(task)
    IN  CASE k = 1 -> AnyIn(Kw.Conges, c) \/ StripSeq(n) \in {<<"c","p">>, <<"f","é","r","i","é">>}
          [] k = 2 -> AnyIn(Kw.Commercial, c) \/ StripSeq(f) = <<"a","v","a","n","t"," ","v","e","n","t","e">>
          [] k = 3 -> AnyIn(Kw.Accompagnement, c) \/ Contains(l, <<"p","l","a","n","i","f","i","c","a","t","i","o","n"," ","l","u","c","a","s">>)
          [] k = 4 -> AnyIn(Kw.Formation, n) \/ StartsWith(StripSeq(n), <<"w","i","k","i">>)
          [] k = 5 -> AnyIn(Kw.EtudeLexicale, c)
          [] k = 6 -> Contains(n, <<"r","e","s","t","i","t","u","t","i","o","n">>) \/ AnyIn(Kw.Audit, c)
          [] k = 7 -> AnyIn(Kw.Redaction, c)
          [] k = 8 -> AnyIn(Kw.Netlinking, c)
          [] k = 9 -> AnyIn(Kw.Maillage, c)
          [] k = 10 -> AnyIn(Kw.Brief, c)
          [] k = 11 -> AnyIn(Kw.Technique, c)
          [] k = 12 -> AnyIn(Kw.Reporting, c)
          [] k = 13 -> AnyIn(Kw.Reunion, c)
          [] k = 14 -> AnyIn(Kw.Gestion, c)
          [] k = 15 -> AnyIn(Kw.Operationnel, c)
RuleLabel(k, task) ==
    CASE k = 1 -> "Conges / Absences"
      [] k = 2 -> "Commercial / Avant-vente"
      [] k = 3 -> "Accompagnement SEO"
      [] k = 4 -> "Formation"
      [] k = 5 -> "Etude lexicale"
      [] k = 6 -> IF Contains(NameOf(task), <<"r","e","s","t","i","t","u","t","i","o","n">>)
                  THEN "Reunion / Call / Email" ELSE "Audit"
      [] k = 7 -> "Redaction / Contenu"
      [] k = 8 -> "Netlinking"
      [] k = 9 -> "Maillage interne"
      [] k = 10 -> "Brief / Roadmap / Strategie"
      [] k = 11 -> "Technique"
      [] k = 12 -> "Reporting / Analytics"
      [] k = 13 -> "Reunion / Call / Email"
      [] k = 14 -> "Gestion / Planning"
      [] k = 15 -> "Operationnel client"
Matching(task) == {k \in 1..15 : RuleHolds(k, task)}
FirstRule(task) == CHOOSE k \in Matching(task) : \A j \in Matching(task) : k <= j

\* C3: categorize returns the label of the first rule of the precedence table,
\* in the order 1..15, that holds on the task, and "Autre" exactly when no rule
\* holds; a name containing "restitution" that reaches rule 6 gives
\* "Reunion / Call / Email" even when "audit" is in the name, list or folder name.
C3_FirstMatchWins ==
    pc = "returned" =>
        LET t == tasks[1]
        IN  /\ Matching(t) # {} => ret = Returned(RuleLabel(FirstRule(t), t))
            /\ (ret = Returned("Autre")) <=> (Matching(t) = {})
            /\ (Contains(NameOf(t), <<"r","e","s","t","i","t","u","t","i","o","n">>) /\ Matching(t) \cap (1..5) = {})
                   => ret = Returned("Reunion / Call / Email")

\* C3 witness: "Restitution audit client" in a list named "Audit" came out as a meeting
C3_Witness ==
    /\ pc = "returned"
    /\ tasks[1].name = PyStr(<<"R","e","s","t","i","t","u","t","i","o","n"," ","a","u","d","i","t"," ","c","l","i","e","n","t">>)
    /\ tasks[1].list_name = PyStr(<<"A","u","d","i","t">>)
    /\ tasks[1].folder_name = None
    /\ ret = Returned("Reunion / Call / Email")

\* The fixed category set: the fifteen rule categories and "Autre"
CategoryLabels ==
    {"Conges / Absences", "Commercial / Avant-vente", "Accompagnement SEO", "Formation",
     "Etude lexicale", "Audit", "Redaction / Contenu", "Netlinking", "Maillage interne",
     "Brief / Roadmap / Strategie", "Technique", "Reporting / Analytics",
     "Reunion / Call / Email", "Gestion / Planning", "Operationnel client", "Autre"}

\* C4: categorize is total: whatever name, list_name and folder_name are (missing,
\* None, empty or a str), it returns one label of the fixed set and never raises.
C4_Total ==
    pc = "returned" => IsReturned(ret) /\ ret[2] \in CategoryLabels

\* C4 witness: a task with no name key, a None list name and an empty folder name
\* was classified
C4_Witness ==
    /\ pc = "returned"
    /\ tasks[1].name = Absent
    /\ tasks[1].list_name = None
    /\ tasks[1].folder_name = PyStr(<<>>)
    /\ ret = Returned("Autre")

\* C5: "Formation" is returned only when the lowered task name holds a Formation
\* keyword or, stripped, starts with "wiki"; "formation" or "wiki" in the list or
\* folder name alone never gives it, and "Kickoff" in the folder
\* "SLASHR Formation Interne" is "Brief / Roadmap / Strategie".
C5_FormationNameOnly ==
    pc = "returned" =>
        LET t == tasks[1]
        IN  /\ ret = Returned("Formation") =>
                   (AnyIn(Kw.Formation, NameOf(t)) \/ StartsWith(StripSeq(NameOf(t)), <<"w","i","k","i">>))
            /\ (/\ t.name = PyStr(<<"K","i","c","k","o","f","f">>)
                /\ t.folder_name = PyStr(<<"S","L","A","S","H","R"," ","F","o","r","m","a","t","i","o","n"," ","I","n","t","e","r","n","e">>)
                /\ t.list_name \in {Absent, None, PyStr(<<"W","i","k","i"," ","f","o","r","m","a","t","i","o","n">>)})
                   => ret = Returned("Brief / Roadmap / Strategie")

\* C5 witness: "Kickoff" in list "Wiki formation" of folder "SLASHR Formation Interne"
C5_Witness ==
    /\ pc = "returned"
    /\ tasks[1].name = PyStr(<<"K","i","c","k","o","f","f">>)
    /\ tasks[1].list_name = PyStr(<<"W","i","k","i"," ","f","o","r","m","a","t","i","o","n">>)
    /\ tasks[1].folder_name = PyStr(<<"S","L","A","S","H","R"," ","F","o","r","m","a","t","i","o","n"," ","I","n","t","e","r","n","e">>)
    /\ ret = Returned("Brief / Roadmap / Strategie")

-----------------------------------------------------------------------------
(* Properties of the date resolver, checked under SpecDate *)

\* A field value that is present and is an epoch-millisecond number datetime can hold
Parseable(v) == IsStr(v) /\ IsNumeric(v[2]) /\ NumLeq(v[2], MaxDatetimeMs)
DateOf(v) == DateInfo(DivDay(StripZeros(v[2]), 0, 0))

\* C6: best_date returns the date of the first of due_date, start_date that is
\* present and parseable, and None when neither is, whatever date_created holds.
C6_DueThenStart ==
    pc \in {"returned", "raised"} =>
        LET t == tasks[1]
        IN  ret = Returned(IF Parseable(t.due_date) THEN DateOf(t.due_date)
                           ELSE IF Parseable(t.start_date) THEN DateOf(t.start_date)
                           ELSE None)

\* C7: a due_date or start_date that is not numeric or is out of the convertible
\* range counts as absent: no exception leaves best_date, and the result is that
\* of the other field alone.
C7_UnparseableIsAbsent ==
    pc \in {"returned", "raised"} =>
        LET t == tasks[1]
        IN  /\ pc = "returned"
            /\ (~Parseable(t.due_date) /\ ~Parseable(t.start_date)) => ret = Returned(None)
            /\ (~Parseable(t.due_date) /\ Parseable(t.start_date))
                   => ret = Returned(DateOf(t.start_date))

\* Whenever best_date does return, the result follows the due_date, start_date
\* priority and does not depend on date_created.
DatePriorityWhenReturned ==
    pc = "returned" =>
        LET t == tasks[1]
        IN  ret = Returned(IF Parseable(t.due_date) THEN DateOf(t.due_date)
                           ELSE IF Parseable(t.start_date) THEN DateOf(t.start_date)
                           ELSE None)

-----------------------------------------------------------------------------
(* Properties of the budget aggregator, checked under SpecBudgets *)

\* The retained list records of a folder, in insertion order, and the sum of a field
ListsOf(fid) == SelectSeq(list_budgets, LAMBDA lb : lb.folder_id = fid)
RECURSIVE SumField(_, _)
SumField(recs, field) ==
    IF Len(recs) = 0 THEN 0 ELSE recs[1][field] + SumField(Tail(recs), field)

\* One prestation line item per retained list of the folder, with the list's values
OnePrestationPerList(fb) ==
    LET lbs == ListsOf(fb.folder_id)
    IN  /\ Len(fb.prestations) = Len(lbs)
        /\ \A k \in 1..Len(lbs) :
               /\ fb.prestations[k].list_name = lbs[k].list_name
               /\ fb.prestations[k].budget = lbs[k].budget
               /\ fb.prestations[k].temps_vendu_jours = lbs[k].temps_vendu_jours
        /\ \A k, j \in 1..Len(lbs) : k # j => lbs[k].key # lbs[j].key

\* C8 as stated: every folder's budget and temps_vendu_jours equal the sums over
\* the retained lists of the folder, with one prestation per list, and equal the
\* sums of the prestations' values.
C8_FolderSumsExact ==
    pc = "returned" =>
        \A n \in 1..Len(ret[2]) :
            LET fb == ret[2][n]
            IN  /\ fb.budget = SumField(ListsOf(fb.folder_id), "budget")
                /\ fb.temps_vendu_jours = SumField(ListsOf(fb.folder_id), "temps_vendu_jours")
                /\ OnePrestationPerList(fb)
                /\ fb.budget = SumField(fb.prestations, "budget")
                /\ fb.temps_vendu_jours = SumField(fb.prestations, "temps_vendu_jours")

\* C8, amended: every folder's budget and temps_vendu_jours equal the sums over
\* the retained lists of the folder rounded to 2 decimals; the folder has one
\* prestation per retained list, carrying the list's unrounded values, and the
\* folder totals equal the rounded sums of the prestations' values.
C8_FolderSumsRounded ==
    pc = "returned" =>
        \A n \in 1..Len(ret[2]) :
            LET fb == ret[2][n]
            IN  /\ fb.budget = Round2(SumField(ListsOf(fb.folder_id), "budget"))
                /\ fb.temps_vendu_jours =
                       Round2(SumField(ListsOf(fb.folder_id), "temps_vendu_jours"))
                /\ OnePrestationPerList(fb)
                /\ fb.budget = Round2(SumField(fb.prestations, "budget"))
                /\ fb.temps_vendu_jours = Round2(SumField(fb.prestations, "temps_vendu_jours"))

\* C8 witness: two lists of one folder, 10000 EUR for 10 days and 5000 EUR for 5
\* days, gave a folder of 15000 EUR, 15 days and a rate of 1000
C8_Witness ==
    /\ pc = "returned"
    /\ Len(ret[2]) = 1
    /\ Len(ret[2][1].prestations) = 2
    /\ ret[2][1].prestations[1].budget = 10000000
    /\ ret[2][1].prestations[2].budget = 5000000
    /\ ret[2][1].budget = 15000000
    /\ ret[2][1].temps_vendu_jours = 15000
    /\ ret[2][1].tjm = 1000000

\* C9: a folder's tjm is round(budget / temps_vendu_jours, 2) of its summed values
\* when both sums are strictly positive, and the default 690 in every other
\* case; the division is never by zero.
C9_TjmRule ==
    pc = "returned" =>
        \A n \in 1..Len(ret[2]) :
            LET fb == ret[2][n]
                b == SumField(ListsOf(fb.folder_id), "budget")
                t == SumField(ListsOf(fb.folder_id), "temps_vendu_jours")
            IN  /\ (b > 0 /\ t > 0) => fb.tjm = Round2Div(b, t)
                /\ ~(b > 0 /\ t > 0) => fb.tjm = DEFAULT_TJM * 1000

\* C9 witness: a folder with a budget of 10000 EUR and no sold days got the rate 690
C9_Witness ==
    /\ pc = "returned"
    /\ \E n \in 1..Len(ret[2]) :
           /\ ret[2][n].budget = 10000000
           /\ ret[2][n].temps_vendu_jours = 0
           /\ ret[2][n].tjm = 690000

\* A task that is a global-info task of folder fid carrying budget data
HasBudgetData(task, fid) ==
    /\ IsStr(task.name)
    /\ Contains(LowerSeq(task.name[2]), <<"i","n","f","o","s"," ","g","l","o","b","a","l","e","s">>)
    /\ NumTruthy(Get(task, "folder_id"))
    /\ PyStrOf(task.folder_id) = fid
    /\ task.custom_fields[1] = "dict"
    /\ \E f \in {"budget", "temps_vendu_jours"} : ~IsNone(Get(task.custom_fields[2], f))

TaskFolders == {PyStrOf(tasks[j].folder_id) : j \in {k \in 1..Len(tasks) : NumTruthy(Get(tasks[k], "folder_id"))}}

\* C10: whatever the list_id values are, the returned mapping holds a Project
\* Budget for folder F exactly when some global-info task of folder F carries a
\* budget or a temps_vendu_jours field.
C10_FolderIffBudgetData ==
    pc = "returned" =>
        \A fid \in TaskFolders \cup {ret[2][n].folder_id : n \in 1..Len(ret[2])} :
            (\E n \in 1..Len(ret[2]) : ret[2][n].folder_id = fid)
                <=> (\E j \in 1..Len(tasks) : HasBudgetData(tasks[j], fid))

\* Every folder of the result comes from such a task (the direction that holds)
FolderOnlyFromBudgetData ==
    pc = "returned" =>
        \A n \in 1..Len(ret[2]) : \E j \in 1..Len(tasks) : HasBudgetData(tasks[j], ret[2][n].folder_id)

-----------------------------------------------------------------------------
(* Properties of the entry-building loop, checked under Spec *)

\* The tasks the loop has taken up: those before the index, and the one at the
\* index when the run ended inside the loop
Reached ==
    IF pc = "crashed" THEN 1..i
    ELSE IF pc \in {"loop", "save", "done"} THEN 1..(i - 1)
    ELSE {}

EstimateOf(t) == IF IsInt(t.time_estimate) THEN t.time_estimate[2] ELSE 0
AssigneesOf(t) == IF IsList(t.assignees) THEN t.assignees[2] ELSE <<>>
EntriesFor(es, t) == SelectSeq(es, LAMBDA e : e.task_id = t.id)

\* The first failing gate of a task, in the fixed order, or "emit"
Gate(t) ==
    IF EstimateOf(t) <= 0 THEN "no_estimate"
    ELSE IF ~(Parseable(t.due_date) \/ Parseable(t.start_date)) THEN "no_date"
    ELSE IF Len(AssigneesOf(t)) = 0 THEN "no_assignee"
    ELSE "emit"
GateCount(g) == Cardinality({j \in Reached : Gate(tasks[j]) = g})

GateCounters ==
    /\ skipped_no_estimate = GateCount("no_estimate")
    /\ skipped_no_date = GateCount("no_date")
    /\ skipped_no_assignee = GateCount("no_assignee")
    /\ \A j \in Reached : (Len(EntriesFor(entries, tasks[j])) > 0) <=> (Gate(tasks[j]) = "emit")
    /\ pc \in {"save", "done"} =>
           skipped_no_estimate + skipped_no_date + skipped_no_assignee + GateCount("emit")
               = Len(tasks)

\* C1: every task the loop takes up either emits entries or increments exactly
\* the skip counter of its first failing gate (estimate, then date, then
\* assignees), and after the loop the three counters and the number of emitting
\* tasks add up to the number of input tasks.
C1_OneGatePerTask == GateCounters

\* The same, for the runs in which no date conversion raises
GateCountersUnlessRaised == pc # "crashed" => GateCounters

\* A task that passes the three gates of the loop
Eligible(t) ==
    /\ EstimateOf(t) > 0
    /\ IsReturned(best_date(t)) /\ ~IsNone(best_date(t)[2])
    /\ Len(AssigneesOf(t)) >= 1

\* The fields the entries of one task have in common
Shared(e) == [e EXCEPT !.user = None, !.user_id = None]

\* hours is the whole estimate in hours, to the nearest hundredth
FullHours(e, t) ==
    LET diff == e.hours * (MS_PER_HOUR \div 1000) - EstimateOf(t)
    IN  diff <= 18000 /\ -diff <= 18000

FanOut(es, t) ==
    LET mine == EntriesFor(es, t)
        assignees == AssigneesOf(t)
    IN  IF Eligible(t)
        THEN /\ Len(mine) = Len(assignees)
             /\ \A k \in 1..Len(mine) :
                    /\ mine[k].user_id = assignees[k].id
                    /\ FullHours(mine[k], t)
                    /\ Shared(mine[k]) = Shared(mine[1])
        ELSE Len(mine) = 0

\* C2: a task with an estimate, a date and N >= 1 assignees has exactly N
\* entries, one per assignee in assignee order, each with the full hours of the
\* task and the same values in every field but user and user_id; this holds in
\* the list being built, after the sort, and in the artifact.
C2_FanOut ==
    /\ \A j \in Reached : FanOut(entries, tasks[j])
    /\ pc = "done" => \A j \in 1..Len(tasks) : FanOut(ret[2].entries, tasks[j])

\* A finished run with a two-hour task of three assignees: three entries of 2.0 hours
C2_Witness ==
    /\ pc = "done"
    /\ \E j \in 1..Len(tasks) :
           /\ tasks[j].time_estimate = PyInt(7200000)
           /\ Len(AssigneesOf(tasks[j])) = 3
           /\ Len(EntriesFor(ret[2].entries, tasks[j])) = 3
           /\ \A k \in 1..3 : EntriesFor(ret[2].entries, tasks[j])[k].hours = 2000

-----------------------------------------------------------------------------
(* Duplicated lists and malformed numbers in the budget aggregator, checked
   under SpecBudgets *)

\* A global-info task with a folder and budget data, and the list it is about
QualifyingTask(t) ==
    NumTruthy(Get(t, "folder_id")) /\ HasBudgetData(t, PyStrOf(t.folder_id))
ListKey(t) == Get(t, "list_id")

\* The qualifying tasks that are the latest of their list, by position
Retained ==
    {k \in 1..Len(tasks) :
        /\ QualifyingTask(tasks[k])
        /\ \A j \in (k + 1)..Len(tasks) :
               ~(QualifyingTask(tasks[j]) /\ ListKey(tasks[j]) = ListKey(tasks[k]))}

\* The sum of a field over the retained tasks of a folder
RECURSIVE RetainedSum(_, _, _)
RetainedSum(fid, field, k) ==
    IF k = 0 THEN 0
    ELSE RetainedSum(fid, field, k - 1)
         + (IF k \in Retained /\ PyStrOf(tasks[k].folder_id) = fid
            THEN ListBudget(tasks[k])[2][field] ELSE 0)

\* The prestation line item of a retained task
PrestationOf(t) ==
    LET lb == ListBudget(t)[2]
    IN  [list_name |-> lb.list_name,
         budget |-> lb.budget,
         temps_vendu_jours |-> lb.temps_vendu_jours,
         type_prestation |-> lb.type_prestation,
         date_debut |-> IsoDate(lb.date_debut)[2],
         date_fin |-> IsoDate(lb.date_fin)[2]]

\* C11: of the qualifying global-info tasks that carry the same list_id only the
\* latest in input order is retained: the result has one prestation per
\* retained task, with that task's budget, temps_vendu_jours, type_prestation
\* and dates, the folder sums add the retained tasks' values only, and a later
\* task that does not qualify changes nothing.
C11_LastWriteWins ==
    pc = "returned" =>
        /\ \A n \in 1..Len(ret[2]) :
               LET fb == ret[2][n]
                   mine == {k \in Retained : PyStrOf(tasks[k].folder_id) = fb.folder_id}
               IN  /\ fb.budget = Round2(RetainedSum(fb.folder_id, "budget", Len(tasks)))
                   /\ fb.temps_vendu_jours =
                          Round2(RetainedSum(fb.folder_id, "temps_vendu_jours", Len(tasks)))
                   /\ Len(fb.prestations) = Cardinality(mine)
                   /\ \A k \in mine : \E m \in 1..Len(fb.prestations) :
                          fb.prestations[m] = PrestationOf(tasks[k])
        /\ \A k \in Retained : \E n \in 1..Len(ret[2]) :
               ret[2][n].folder_id = PyStrOf(tasks[k].folder_id)

\* C11 witness: two qualifying tasks of list L1 in folder 901, 10000 EUR for 10
\* days then "5000" EUR for 5 days, gave one prestation of 5000 EUR for 5 days
C11_Witness ==
    /\ pc = "returned"
    /\ Len(tasks) = 2
    /\ tasks[1] = GlobalInfo(CfA, ListA, FolderA)
    /\ tasks[2] = GlobalInfo(CfB, ListA, FolderA)
    /\ Len(ret[2]) = 1
    /\ Len(ret[2][1].prestations) = 1
    /\ ret[2][1].budget = 5000000
    /\ ret[2][1].temps_vendu_jours = 5000

\* The number a budget field stands for: itself, the value of a str of digits,
\* and 0 for an absent, null or zero value and for any other value
Coerced(v) ==
    IF IsNum(v) THEN v[2]
    ELSE IF IsInt(v) THEN v[2] * 1000
    ELSE IF IsStr(v) /\ IsNumeric(v[2]) THEN DigitsToInt(v[2], 0) * 1000
    ELSE 0

NumbersCoerced ==
    pc = "returned" =>
        \A k \in Retained : \E n \in 1..Len(ret[2]) : \E m \in 1..Len(ret[2][n].prestations) :
            LET p == ret[2][n].prestations[m]
                cf == tasks[k].custom_fields[2]
            IN  /\ ret[2][n].folder_id = PyStrOf(tasks[k].folder_id)
                /\ p.budget = Coerced(Get(cf, "budget"))
                /\ p.temps_vendu_jours = Coerced(Get(cf, "temps_vendu_jours"))

\* C12: no budget or temps_vendu_jours value makes build_project_budgets raise:
\* an absent, null, zero or non-numeric value counts as 0, a number as itself,
\* and the aggregation completes.
C12_MalformedNumberCoerced ==
    /\ NumbersCoerced
    /\ IsRaised(ret) => ret[2] # "ValueError"

-----------------------------------------------------------------------------
(* Properties of the entries' fields, checked under Spec *)

\* A value that is there: neither missing, null nor the empty str
Present(v) == ~IsNone(v) /\ v # Absent /\ v # PyStr(<<>>)

\* The display key of an assignee
DisplayKey(a) ==
    IF Present(a.username) THEN a.username
    ELSE IF Present(a.email) THEN a.email
    ELSE IF Present(a.id) THEN PyStrOf(a.id)
    ELSE PyStr(<<"(","u","n","a","s","s","i","g","n","e","d",")">>)

UserIsDisplayKey(known) ==
    \A j \in Reached :
        Eligible(tasks[j]) =>
            LET mine == EntriesFor(entries, tasks[j])
                assignees == AssigneesOf(tasks[j])
            IN  \A k \in 1..Len(mine) :
                    (known => Present(assignees[k].id)) =>
                        /\ mine[k].user = DisplayKey(assignees[k])
                        /\ mine[k].user # PyStr(<<>>)

\* C13: an entry's user is the assignee's username if present, else the email
\* if present, else the string form of the id; it is never empty, it is
\* "(unassigned)" when the three are absent, and the run does not crash on
\* such an assignee.
C13_UserDisplayKey == UserIsDisplayKey(FALSE)

\* The same for the assignees that have an id
UserDisplayKeyWithId == UserIsDisplayKey(TRUE)

\* The folder name an entry's project comes from: the lookup's for str(folder_id)
\* when it has one, else the task's own
ResolvedName(t) ==
    IF Present(t.folder_id) /\ PyStrOf(t.folder_id)[2] \in DOMAIN folder_names
    THEN folder_names[PyStrOf(t.folder_id)[2]]
    ELSE t.folder_name

\* C14: an entry's project is the lookup's name for str(folder_id) when the
\* lookup has the task's folder_id, whatever the task's own folder_name is,
\* otherwise the task's own folder_name, and "(sans dossier)" when that name is
\* absent or empty; it is never empty.
C14_ProjectResolution ==
    \A j \in Reached :
        LET mine == EntriesFor(entries, tasks[j])
            name == ResolvedName(tasks[j])
        IN  \A k \in 1..Len(mine) :
                /\ mine[k].project = (IF Present(name) THEN name ELSE PyStr(<<"(","s","a","n","s"," ","d","o","s","s","i","e","r",")">>))
                /\ mine[k].project # PyStr(<<>>)

\* C14 witness: a task of folder 901 named "Dossier A" by itself and "Client A"
\* by the lookup has an entry of project "Client A", and a task of folder 903,
\* which the lookup names "", one of project "(sans dossier)"
C14_Witness ==
    /\ pc = "done"
    /\ \E e \in 1..Len(entries) : \E j \in 1..Len(tasks) :
           /\ entries[e].task_id = tasks[j].id
           /\ tasks[j].folder_name = PyStr(<<"D","o","s","s","i","e","r"," ","A">>)
           /\ entries[e].project = PyStr(<<"C","l","i","e","n","t"," ","A">>)
    /\ \E e \in 1..Len(entries) : \E j \in 1..Len(tasks) :
           /\ entries[e].task_id = tasks[j].id
           /\ tasks[j].folder_name = PyStr(<<"D","o","s","s","i","e","r"," ","C">>)
           /\ entries[e].project = PyStr(<<"(","s","a","n","s"," ","d","o","s","s","i","e","r",")">>)

\* Ascending by date
SortedByDate(es) == \A k \in 1..(Len(es) - 1) : DateLeq(es[k].date, es[k + 1].date)
OfDate(es, d) == SelectSeq(es, LAMBDA e : e.date = d)

\* C15: the sort leaves the entry list ascending by date, with the same
\* entries, those of one date in the order in which they were emitted; the
\* list stays so up to the artifact.
C15_StableSort ==
    /\ [](pc \in {"save", "done"} => SortedByDate(entries))
    /\ [](pc = "done" => ret[2].entries = entries)
    /\ [][(pc = "loop" /\ pc' = "save") =>
            /\ Len(entries') = Len(entries)
            /\ \A k \in 1..Len(entries) :
                   OfDate(entries', entries[k].date) = OfDate(entries, entries[k].date)]_vars

\* C15 witness: a task of three assignees dated 2024-11-03 was emitted before a
\* task dated 1970-01-02; sorted, the later task's entry comes first and the
\* three keep the assignee order
C15_Witness ==
    /\ pc = "save"
    /\ Len(entries) = 4
    /\ entries[1].task_id = TaskId(2)
    /\ entries[1].date = <<1970, 1, 2>>
    /\ \A k \in 1..3 :
           /\ entries[k + 1].task_id = TaskId(1)
           /\ entries[k + 1].date = <<2024, 11, 3>>
           /\ entries[k + 1].user_id = PyInt(k)

-----------------------------------------------------------------------------
(* Properties that compare runs, checked under Spec *)

\* A snapshot with every time_spent set to 0
WithoutSpent(ts) == [j \in 1..Len(ts) |-> [ts[j] EXCEPT !.time_spent = PyInt(0)]]
NoSpentHours(es) == [k \in 1..Len(es) |-> [es[k] EXCEPT !.spent_hours = 0]]

\* The three loops of build_project_budgets on a snapshot
RECURSIVE ScanFrom(_, _, _)
ScanFrom(lbs, ts, k) ==
    IF k > Len(ts) THEN Returned(lbs)
    ELSE LET r == ScanTask(lbs, ts[k])
         IN  IF IsRaised(r) THEN r ELSE ScanFrom(r[2], ts, k + 1)
RECURSIVE AggregateFrom(_, _, _, _)
AggregateFrom(fbs, lbs, lookup, k) ==
    IF k > Len(lbs) THEN Returned(fbs)
    ELSE LET r == AggregateList(fbs, lbs[k], lookup)
         IN  IF IsRaised(r) THEN r ELSE AggregateFrom(r[2], lbs, lookup, k + 1)
BudgetsOf(ts, lookup) ==
    LET lbs == ScanFrom(<<>>, ts, 1)
    IN  IF IsRaised(lbs) THEN lbs
        ELSE LET fbs == AggregateFrom(<<>>, lbs[2], lookup, 1)
             IN  IF IsRaised(fbs) THEN fbs
                 ELSE Returned([k \in 1..Len(fbs[2]) |-> ComputeTjm(fbs[2][k])])

\* The loop of main on the first n tasks of a snapshot: the entries and the counters
Emits(t) ==
    /\ ~NoEstimate(t)
    /\ IsReturned(best_date(t)) /\ ~NoDate(t)
    /\ ~NoAssignee(t)
RECURSIVE EntriesUpTo(_, _, _)
EntriesUpTo(ts, lookup, n) ==
    IF n = 0 THEN <<>>
    ELSE EntriesUpTo(ts, lookup, n - 1)
         \o (IF Emits(ts[n]) THEN EntriesOf(ts[n], lookup) ELSE <<>>)
CountersUpTo(ts, n) ==
    <<Cardinality({j \in 1..n : NoEstimate(ts[j])}),
      Cardinality({j \in 1..n : ~NoEstimate(ts[j]) /\ IsReturned(best_date(ts[j]))
                                 /\ NoDate(ts[j])}),
      Cardinality({j \in 1..n : ~NoEstimate(ts[j]) /\ IsReturned(best_date(ts[j]))
                                 /\ ~NoDate(ts[j]) /\ NoAssignee(ts[j])})>>

\* The tasks the loop is through with
Processed == IF pc \in {"loop", "crashed"} THEN i - 1 ELSE Len(tasks)

\* C16: time_spent is informational. The counters, the project budgets and the
\* entries but for spent_hours are those of the run on the snapshot whose
\* time_spent values are all 0: two snapshots that differ in time_spent only
\* give the same counters, budgets and entries, in the same order, up to
\* spent_hours.
C16_SpentIsInformational ==
    LET ts == WithoutSpent(tasks)
    IN  /\ pc = "raised" => ret = BudgetsOf(ts, folder_names)
        /\ pc \in {"loop", "crashed", "save", "done"} =>
               /\ Returned(folder_budgets) = BudgetsOf(ts, folder_names)
               /\ <<skipped_no_estimate, skipped_no_date, skipped_no_assignee>>
                      = CountersUpTo(ts, Processed)
               /\ NoSpentHours(entries) =
                      NoSpentHours(IF pc \in {"save", "done"}
                                   THEN SortByDate(EntriesUpTo(ts, folder_names, Processed))
                                   ELSE EntriesUpTo(ts, folder_names, Processed))
        /\ pc = "crashed" => IsRaised(best_date(ts[i]))
        /\ pc = "done" =>
               /\ NoSpentHours(ret[2].entries) = NoSpentHours(entries)
               /\ ret[2].project_budgets =
                      BudgetsByName(BudgetsOf(ts, folder_names)[2],
                                    Len(BudgetsOf(ts, folder_names)[2]))

\* C16 witness: a finished run on a global-info task of one hour with half an
\* hour spent: a folder budget, and an entry of 1.0 hours and 0.5 spent hours
C16_Witness ==
    /\ pc = "done"
    /\ \E j \in 1..Len(tasks) : tasks[j].time_spent = PyInt(1800000) /\ Qualifies(tasks[j])
    /\ \E k \in 1..Len(entries) : entries[k].spent_hours = 500 /\ entries[k].hours = 1000
    /\ Len(folder_budgets) = 1

-----------------------------------------------------------------------------
(* The result of the crawl *)

NoDuplicates(ts) == \A j, k \in 1..Len(ts) : ts[j] = ts[k] => j = k

\* C17: the list fetch_all_tasks returns holds no two tasks of the same id,
\* whatever the API answers
C17_ResultDeduplicated == IsReturned(ret) => NoDuplicates(ret[2])

\* What the crawl does guarantee: a task the result holds twice was twice in the
\* answer of one endpoint (the workspace endpoint, or one list)
DistinctWithinEndpoints ==
    /\ NoDuplicates(fetch_paginated(responses.workspace))
    /\ \A l \in DOMAIN responses.tasks : NoDuplicates(fetch_paginated(responses.tasks[l]))
DeduplicatedAcrossEndpoints ==
    /\ seen_ids = Ids(all_tasks)
    /\ DistinctWithinEndpoints => NoDuplicates(all_tasks)

-----------------------------------------------------------------------------
(* Failures of a fetch or of a read *)

FailedConsultants == {k \in 1..Len(CONSULTANTS) : k < i /\ IsRaised(responses[CONSULTANTS[k]])}

\* C18: a run in which a fetch failed writes no output file
C18_FailedFetchWritesNothing ==
    FailedConsultants # {} => written = <<>>

\* What holds: the calendar file lacks exactly the consultants whose fetch failed,
\* and the two other scripts write nothing once a request or a read has failed
OmitsFailedConsultants ==
    written # <<>> =>
        /\ DOMAIN stats = {CONSULTANTS[k] : k \in 1..Len(CONSULTANTS)} \ {CONSULTANTS[k] : k \in FailedConsultants}
        /\ \A k \in 1..Len(all_meetings) : IsReturned(responses[all_meetings[k].user])
FailedRequestWritesNothing == [](IsRaised(ret) => [](written = <<>> /\ IsRaised(ret)))

-----------------------------------------------------------------------------
(* Calling main again *)

-----------------------------------------------------------------------------
(* date_created *)

\* A task with an estimate and assignees, neither due_date nor start_date, and a
\* date_created that converts
Missing(v) == v \in {Absent, None, PyStr(<<>>)}
OnlyCreated(t) ==
    /\ EstimateOf(t) > 0
    /\ Len(AssigneesOf(t)) >= 1
    /\ Missing(t.due_date) /\ Missing(t.start_date)
    /\ Parseable(t.date_created)

-----------------------------------------------------------------------------
(* The project budgets of the artifact *)

Artifact == ret[2].project_budgets
SameBudget(out, fb) ==
    /\ out.key = fb.folder_name
    /\ out.budget = fb.budget
    /\ out.temps_vendu_jours = fb.temps_vendu_jours
    /\ out.tjm = fb.tjm
    /\ out.prestations = fb.prestations

\* C21: keying the budgets by project name loses nothing. Every folder of
\* build_project_budgets is in the artifact under its folder name with its own
\* budget, temps_vendu_jours, tjm and prestations, and the artifact has as many
\* projects as there are folders.
C21_RekeyLosesNothing ==
    pc = "done" =>
        /\ Len(Artifact) = Len(folder_budgets)
        /\ \A k \in 1..Len(folder_budgets) :
               \E j \in 1..Len(Artifact) : SameBudget(Artifact[j], folder_budgets[k])

\* What the artifact does hold: one project per distinct non-empty folder name,
\* with the values of the last folder of that name
LastOfName(k) ==
    /\ Truthy(folder_budgets[k].folder_name)
    /\ \A m \in (k + 1)..Len(folder_budgets) :
           folder_budgets[m].folder_name # folder_budgets[k].folder_name
RekeyKeepsLastOfName ==
    pc = "done" =>
        /\ Len(Artifact) = Cardinality({k \in 1..Len(folder_budgets) : LastOfName(k)})
        /\ \A k \in 1..Len(folder_budgets) : LastOfName(k) =>
               \E j \in 1..Len(Artifact) : SameBudget(Artifact[j], folder_budgets[k])
        /\ \A j \in 1..Len(Artifact) :
               \E k \in 1..Len(folder_budgets) :
                   LastOfName(k) /\ SameBudget(Artifact[j], folder_budgets[k])

=============================================================================
